---- MODULE Spec2Model ----
(***************************************************************************)
(* Fleet management system: a navigation graph with a reservation store    *)
(* (NavGraph), robots following shortest paths by reserving lanes and      *)
(* vertices (Robot), the fleet registry (FleetManager), the deadlock       *)
(* override (TrafficManager) and the main loop that ticks them.            *)
(*                                                                         *)
(* Vertex ids, robot ids and current_path_index are 0-based as in the      *)
(* source; a path is a sequence, so path element i of the source is        *)
(* path[i + 1] here.                                                       *)
(***************************************************************************)
EXTENDS Integers, Sequences, FiniteSets, TLC

VARIABLES
    vertices,         \* NavGraph.vertices: vertex id -> vertex record
    lanes,            \* NavGraph.lanes: sequence of lane records
    robots,           \* FleetManager.robots: robot records in insertion order
    next_robot_id,    \* FleetManager.next_robot_id
    selected_robot,   \* FleetManager.selected_robot
    pc,               \* position of the main loop: "events" or "update"
    cursor,           \* index in robots of the next robot FleetManager.update visits
    assigned,         \* number of navigation tasks assigned so far
    event_log         \* entries the tick loop has logged since the latest
                      \* traffic_manager.update began

vars == <<vertices, lanes, robots, next_robot_id, selected_robot, pc, cursor,
          assigned, event_log>>

-----------------------------------------------------------------------------
(* Values *)

\* Python's None where the source stores an id or None.
None == -1

IDLE == "idle"
MOVING == "moving"
WAITING == "waiting"
CHARGING == "charging"
COMPLETED == "completed"

States == {IDLE, MOVING, WAITING, CHARGING, COMPLETED}

\* Robot.move_speed, pixels per tick.
move_speed == 2

\* Default click tolerance of FleetManager.select_robot, pixels.
tolerance == 20

\* Most robots the fleet is let to spawn.
MaxRobots == 2

\* Most navigation tasks that are assigned in a run.
MaxTasks == 2

RobotIds == 0 .. (MaxRobots - 1)

NoEvent == <<>>

-----------------------------------------------------------------------------
(* Graph documents: what load_from_json reads.  Coordinates are given in   *)
(* 64ths of a unit; every vertex of a document has the same y, so every    *)
(* lane is parallel to the x axis and the scale factor is 400 / 2.0.       *)

Vtx(x, c) == [x |-> x, y |-> 0, is_charger |-> c]

\* Scenario A's line graph V0 -> V1 -> V2, no chargers.
LineDoc ==
    [vertices |-> <<Vtx(0, FALSE), Vtx(1, FALSE), Vtx(2, FALSE)>>,
     lanes    |-> << <<0, 1>>, <<1, 2>> >>]

\* The same line with a charger in the middle and a lane back from V1.
ChargerDoc ==
    [vertices |-> <<Vtx(0, FALSE), Vtx(1, TRUE), Vtx(2, FALSE)>>,
     lanes    |-> << <<0, 1>>, <<1, 2>>, <<1, 0>> >>]

Docs == {LineDoc, ChargerDoc}

\* NavGraph.load_from_json: vertex id = list index, nothing occupied,
\* no lane blocked; the documents give no speed_limit, so it is 0.
LoadVertices(doc) ==
    [i \in 0 .. (Len(doc.vertices) - 1) |->
        [id |-> i,
         x |-> doc.vertices[i + 1].x,
         y |-> doc.vertices[i + 1].y,
         is_charger |-> doc.vertices[i + 1].is_charger,
         occupying_robot |-> None]]

LoadLanes(doc) ==
    [k \in 1 .. Len(doc.lanes) |->
        [from_vertex |-> doc.lanes[k][1],
         to_vertex |-> doc.lanes[k][2],
         speed_limit |-> 0,
         occupying_robot |-> None,
         is_blocked |-> FALSE]]

\* The NavGraph object the other components hold a reference to.
NavGraph(vs, ls) == [vertices |-> vs, lanes |-> ls]

nav_graph == NavGraph(vertices, lanes)

VertexIds(ng) == DOMAIN ng.vertices

-----------------------------------------------------------------------------
(* Small helpers *)

Abs(n) == IF n < 0 THEN -n ELSE n

Sign(n) == IF n < 0 THEN -1 ELSE IF n > 0 THEN 1 ELSE 0

SetMin(S) == CHOOSE m \in S : \A n \in S : m <= n

SetMax(S) == CHOOSE m \in S : \A n \in S : m >= n

-----------------------------------------------------------------------------
(* NavGraph: visualization scaling (_calculate_bounds, get_scaled_position). *)
(* The source computes in floats; here the same arithmetic is done on      *)
(* fractions.  Coordinates are in 64ths, so the padding 2.0 is 128.        *)

padding == 128

screen_width == 800

screen_height == 600

margin_x == 100

margin_y == 100

min_x(ng) == SetMin({ng.vertices[v].x : v \in VertexIds(ng)})

max_x(ng) == SetMax({ng.vertices[v].x : v \in VertexIds(ng)})

min_y(ng) == SetMin({ng.vertices[v].y : v \in VertexIds(ng)})

max_y(ng) == SetMax({ng.vertices[v].y : v \in VertexIds(ng)})

width(ng) == (max_x(ng) - min_x(ng)) + padding

height(ng) == (max_y(ng) - min_y(ng)) + padding

\* scale_factor = min((screen_width - 2*margin_x) / width,
\*                    (screen_height - 2*margin_y) / height), as num / den.
scale_factor(ng) ==
    LET aw == screen_width - 2 * margin_x
        ah == screen_height - 2 * margin_y
    IN  IF aw * height(ng) <= ah * width(ng)
        THEN [num |-> aw, den |-> width(ng)]
        ELSE [num |-> ah, den |-> height(ng)]

\* int((c - min) * scale_factor + offset), with
\* offset = margin + (screen - 2*margin - extent * scale_factor) / 2.
ScaleCoord(c, lo, extent, screen, margin, sf) ==
    (2 * (c - lo) * sf.num + 2 * margin * sf.den
        + (screen - 2 * margin) * sf.den - extent * sf.num) \div (2 * sf.den)

get_scaled_position(ng, vertex_id) ==
    LET vertex == ng.vertices[vertex_id]
        sf == scale_factor(ng)
    IN  <<ScaleCoord(vertex.x, min_x(ng), width(ng), screen_width, margin_x, sf),
          ScaleCoord(vertex.y, min_y(ng), height(ng), screen_height, margin_y, sf)>>

-----------------------------------------------------------------------------
(* NavGraph: shortest paths.  networkx.shortest_path on the unweighted     *)
(* DiGraph built from the lanes: a path with the fewest hops; which one    *)
(* among several is the library's choice, so every one of them is a        *)
(* possible result.  None (here: no path in the set) when unreachable.     *)

\* Mutant: a blocked lane is no edge of the graph.
HasEdge_unblocked(ng, a, b) ==
    \E k \in DOMAIN ng.lanes :
        /\ ng.lanes[k].from_vertex = a
        /\ ng.lanes[k].to_vertex = b
        /\ ~ng.lanes[k].is_blocked

HasEdge(ng, a, b) ==
    \E k \in DOMAIN ng.lanes :
        ng.lanes[k].from_vertex = a /\ ng.lanes[k].to_vertex = b

Successors(ng, S) ==
    {b \in VertexIds(ng) : \E a \in S : HasEdge(ng, a, b)}

\* Breadth-first search from the frontier: hops to end_vertex, or None.
RECURSIVE BfsDistance(_, _, _, _, _)
BfsDistance(ng, frontier, visited, end_vertex, hops) ==
    IF end_vertex \in frontier THEN hops
    ELSE IF frontier = {} THEN None
    ELSE LET seen == visited \cup frontier
         IN  BfsDistance(ng, Successors(ng, frontier) \ seen, seen,
                         end_vertex, hops + 1)

PathsOfHops(ng, start_vertex, end_vertex, hops) ==
    {p \in [1 .. (hops + 1) -> VertexIds(ng)] :
        /\ p[1] = start_vertex
        /\ p[hops + 1] = end_vertex
        /\ \A i \in 1 .. hops : HasEdge(ng, p[i], p[i + 1])}

\* The set of results get_shortest_path may return; empty when it
\* returns None.
get_shortest_path(ng, start_vertex, end_vertex) ==
    LET hops == BfsDistance(ng, {start_vertex}, {}, end_vertex, 0)
    IN  IF hops = None THEN {}
        ELSE PathsOfHops(ng, start_vertex, end_vertex, hops)

-----------------------------------------------------------------------------
(* NavGraph: the reservation store.  Each operation gives the value it     *)
(* returns (ret) and the graph it leaves (ng).                             *)

\* Mutant: the latest caller takes the vertex from whoever holds it.
reserve_vertex_overwriting(ng, vertex_id, robot_id) ==
    [ret |-> TRUE,
     ng |-> [ng EXCEPT !.vertices[vertex_id].occupying_robot = robot_id]]

\* Mutant: a robot that already holds the vertex is granted it again.
reserve_vertex_reentrant(ng, vertex_id, robot_id) ==
    IF ng.vertices[vertex_id].occupying_robot \in {None, robot_id}
    THEN [ret |-> TRUE,
          ng |-> [ng EXCEPT !.vertices[vertex_id].occupying_robot = robot_id]]
    ELSE [ret |-> FALSE, ng |-> ng]

reserve_vertex(ng, vertex_id, robot_id) ==
    IF ng.vertices[vertex_id].occupying_robot = None
    THEN [ret |-> TRUE,
          ng |-> [ng EXCEPT !.vertices[vertex_id].occupying_robot = robot_id]]
    ELSE [ret |-> FALSE, ng |-> ng]

\* Mutant: the vertex is cleared whoever holds it.
release_vertex_any(ng, vertex_id, robot_id) ==
    [ng EXCEPT !.vertices[vertex_id].occupying_robot = None]

\* Mutant: a release leaves the vertex recorded to its occupant.
release_vertex_never(ng, vertex_id, robot_id) == ng

release_vertex(ng, vertex_id, robot_id) ==
    IF ng.vertices[vertex_id].occupying_robot = robot_id
    THEN [ng EXCEPT !.vertices[vertex_id].occupying_robot = None]
    ELSE ng

\* Indices of the lanes from from_vertex to to_vertex, in list order.
MatchingLanes(ng, from_vertex, to_vertex) ==
    {k \in DOMAIN ng.lanes :
        /\ ng.lanes[k].from_vertex = from_vertex
        /\ ng.lanes[k].to_vertex = to_vertex}

\* Mutant: the manual block is not looked at.
reserve_lane_ignoring_block(ng, from_vertex, to_vertex, robot_id) ==
    LET match == MatchingLanes(ng, from_vertex, to_vertex)
    IN  IF match = {} THEN [ret |-> FALSE, ng |-> ng]
        ELSE LET k == SetMin(match)
             IN  IF ng.lanes[k].occupying_robot = None
                 THEN [ret |-> TRUE,
                       ng |-> [ng EXCEPT !.lanes[k].occupying_robot = robot_id]]
                 ELSE [ret |-> FALSE, ng |-> ng]

\* The loop returns at the first matching lane.
reserve_lane(ng, from_vertex, to_vertex, robot_id) ==
    LET match == MatchingLanes(ng, from_vertex, to_vertex)
    IN  IF match = {} THEN [ret |-> FALSE, ng |-> ng]
        ELSE LET k == SetMin(match)
             IN  IF ng.lanes[k].occupying_robot = None /\ ~ng.lanes[k].is_blocked
                 THEN [ret |-> TRUE,
                       ng |-> [ng EXCEPT !.lanes[k].occupying_robot = robot_id]]
                 ELSE [ret |-> FALSE, ng |-> ng]

\* Mutant: a release leaves the lane recorded to its occupant.
release_lane_never(ng, from_vertex, to_vertex, robot_id) == ng

\* Mutant: the lane is cleared whoever holds it.
release_lane_any(ng, from_vertex, to_vertex, robot_id) ==
    [ng EXCEPT !.lanes =
        [k \in DOMAIN ng.lanes |->
            IF k \in MatchingLanes(ng, from_vertex, to_vertex)
            THEN [ng.lanes[k] EXCEPT !.occupying_robot = None]
            ELSE ng.lanes[k]]]

\* The loop visits every matching lane.
release_lane(ng, from_vertex, to_vertex, robot_id) ==
    [ng EXCEPT !.lanes =
        [k \in DOMAIN ng.lanes |->
            IF /\ k \in MatchingLanes(ng, from_vertex, to_vertex)
               /\ ng.lanes[k].occupying_robot = robot_id
            THEN [ng.lanes[k] EXCEPT !.occupying_robot = None]
            ELSE ng.lanes[k]]]

-----------------------------------------------------------------------------
(* Robot *)

\* Robot.__init__: the robot record, and the graph after the constructor
\* has reserved the start vertex (the result of that call is not read).
RobotInit(robot_id, start_vertex, ng) ==
    [robot |->
        [id |-> robot_id,
         current_vertex |-> start_vertex,
         state |-> IDLE,
         path |-> <<>>,
         current_path_index |-> 0,
         target_vertex |-> None,
         position |-> get_scaled_position(ng, start_vertex),
         target_position |-> get_scaled_position(ng, start_vertex)],
     ng |-> reserve_vertex(ng, start_vertex, robot_id).ng]

\* Mutant: a charging robot takes a task as an idle one does.
assign_task_while_charging(robot, ng, destination_vertex) ==
    IF robot.state # IDLE /\ robot.state # COMPLETED /\ robot.state # CHARGING
    THEN {[ret |-> FALSE, robot |-> robot, ng |-> ng]}
    ELSE LET paths == get_shortest_path(ng, robot.current_vertex, destination_vertex)
         IN  IF paths = {}
             THEN {[ret |-> FALSE, robot |-> robot, ng |-> ng]}
             ELSE {[ret |-> TRUE,
                    robot |-> [robot EXCEPT !.path = path,
                                            !.current_path_index = 0,
                                            !.target_vertex = destination_vertex,
                                            !.state = IDLE],
                    ng |-> ng] : path \in paths}

\* Mutant: the state is not reset, so a completed robot stays completed.
assign_task_keeping_state(robot, ng, destination_vertex) ==
    IF robot.state # IDLE /\ robot.state # COMPLETED
    THEN {[ret |-> FALSE, robot |-> robot, ng |-> ng]}
    ELSE LET paths == get_shortest_path(ng, robot.current_vertex, destination_vertex)
         IN  IF paths = {}
             THEN {[ret |-> FALSE, robot |-> robot, ng |-> ng]}
             ELSE {[ret |-> TRUE,
                    robot |-> [robot EXCEPT !.path = path,
                                            !.current_path_index = 0,
                                            !.target_vertex = destination_vertex],
                    ng |-> ng] : path \in paths}

\* Mutant: the index into the path is not reset for the new path.
assign_task_keeping_index(robot, ng, destination_vertex) ==
    IF robot.state # IDLE /\ robot.state # COMPLETED
    THEN {[ret |-> FALSE, robot |-> robot, ng |-> ng]}
    ELSE LET paths == get_shortest_path(ng, robot.current_vertex, destination_vertex)
         IN  IF paths = {}
             THEN {[ret |-> FALSE, robot |-> robot, ng |-> ng]}
             ELSE {[ret |-> TRUE,
                    robot |-> [robot EXCEPT !.path = path,
                                            !.target_vertex = destination_vertex,
                                            !.state = IDLE],
                    ng |-> ng] : path \in paths}

\* Robot.assign_task: the set of outcomes (the value returned, the robot
\* and the graph left); more than one only when there are several
\* shortest paths.
assign_task(robot, ng, destination_vertex) ==
    IF robot.state # IDLE /\ robot.state # COMPLETED
    THEN {[ret |-> FALSE, robot |-> robot, ng |-> ng]}
    ELSE LET paths == get_shortest_path(ng, robot.current_vertex, destination_vertex)
         IN  IF paths = {}
             THEN {[ret |-> FALSE, robot |-> robot, ng |-> ng]}
             ELSE {[ret |-> TRUE,
                    robot |-> [robot EXCEPT !.path = path,
                                            !.current_path_index = 0,
                                            !.target_vertex = destination_vertex,
                                            !.state = IDLE],
                    ng |-> ng] : path \in paths}

\* The result of Robot.update: the robot, the graph and the status
\* update's event.
UpdateResult(robot, ng, event) == [robot |-> robot, ng |-> ng, event |-> event]

\* Mutant: a robot refused a lane takes it from the robot that holds it.
TryDepart_revoking(robot, ng) ==
    LET next_vertex == robot.path[robot.current_path_index + 2]
        taken == [ng EXCEPT !.lanes =
                     [k \in DOMAIN ng.lanes |->
                         IF k \in MatchingLanes(ng, robot.current_vertex, next_vertex)
                         THEN [ng.lanes[k] EXCEPT !.occupying_robot = robot.id]
                         ELSE ng.lanes[k]]]
    IN  UpdateResult(
            [robot EXCEPT !.state = MOVING,
                          !.target_position = get_scaled_position(ng, next_vertex)],
            release_vertex(taken, robot.current_vertex, robot.id),
            <<"moving_to", next_vertex>>)

\* Mutant: a departing robot keeps its reservation of the vertex it leaves.
TryDepart_keeping_vertex(robot, ng) ==
    LET next_vertex == robot.path[robot.current_path_index + 2]
        can_reserve_lane == reserve_lane(ng, robot.current_vertex, next_vertex, robot.id)
    IN  IF can_reserve_lane.ret
        THEN UpdateResult(
                 [robot EXCEPT !.state = MOVING,
                               !.target_position = get_scaled_position(ng, next_vertex)],
                 can_reserve_lane.ng,
                 <<"moving_to", next_vertex>>)
        ELSE IF robot.state = WAITING
             THEN UpdateResult(robot, ng, NoEvent)
             ELSE UpdateResult([robot EXCEPT !.state = WAITING], ng,
                               <<"waiting_for_lane_to", next_vertex>>)

\* Mutant: the robot leaves only if the vertex at the lane's end is free.
TryDepart_checking_vertex(robot, ng) ==
    LET next_vertex == robot.path[robot.current_path_index + 2]
        can_reserve_lane ==
            IF ng.vertices[next_vertex].occupying_robot = None
            THEN reserve_lane(ng, robot.current_vertex, next_vertex, robot.id)
            ELSE [ret |-> FALSE, ng |-> ng]
    IN  IF can_reserve_lane.ret
        THEN UpdateResult(
                 [robot EXCEPT !.state = MOVING,
                               !.target_position = get_scaled_position(ng, next_vertex)],
                 release_vertex(can_reserve_lane.ng, robot.current_vertex, robot.id),
                 <<"moving_to", next_vertex>>)
        ELSE IF robot.state = WAITING
             THEN UpdateResult(robot, ng, NoEvent)
             ELSE UpdateResult([robot EXCEPT !.state = WAITING], ng,
                               <<"waiting_for_lane_to", next_vertex>>)

\* Mutant: a robot refused its lane sets off all the same, without it.
TryDepart_unreserved(robot, ng) ==
    LET next_vertex == robot.path[robot.current_path_index + 2]
        can_reserve_lane == reserve_lane(ng, robot.current_vertex, next_vertex, robot.id)
    IN  UpdateResult(
            [robot EXCEPT !.state = MOVING,
                          !.target_position = get_scaled_position(ng, next_vertex)],
            release_vertex(can_reserve_lane.ng, robot.current_vertex, robot.id),
            <<"moving_to", next_vertex>>)

\* Lines 98-117 and 163-177: try to reserve the lane to the next path
\* vertex; on success release the current vertex and start moving.  On
\* failure an idle or charging robot starts waiting; a waiting robot is
\* left as it is, with no event.
TryDepart(robot, ng) ==
    LET next_vertex == robot.path[robot.current_path_index + 2]
        can_reserve_lane == reserve_lane(ng, robot.current_vertex, next_vertex, robot.id)
    IN  IF can_reserve_lane.ret
        THEN UpdateResult(
                 [robot EXCEPT !.state = MOVING,
                               !.target_position = get_scaled_position(ng, next_vertex)],
                 release_vertex(can_reserve_lane.ng, robot.current_vertex, robot.id),
                 <<"moving_to", next_vertex>>)
        ELSE IF robot.state = WAITING
             THEN UpdateResult(robot, ng, NoEvent)
             ELSE UpdateResult([robot EXCEPT !.state = WAITING], ng,
                               <<"waiting_for_lane_to", next_vertex>>)

\* distance < move_speed for the vector direction, compared on squares.
Reached(direction) ==
    direction[1] * direction[1] + direction[2] * direction[2] < move_speed * move_speed

\* direction / distance * move_speed, for a direction parallel to an axis.
Movement(direction) ==
    <<Sign(direction[1]) * move_speed, Sign(direction[2]) * move_speed>>

\* Mutant: the lane just traversed is not released on arrival.
Arrive_keeping_lane(robot, ng) ==
    LET index == robot.current_path_index + 1
        next_vertex == robot.path[index + 1]
        reserved == reserve_vertex(ng, next_vertex, robot.id).ng
        arrived == [robot EXCEPT !.position = robot.target_position,
                                 !.current_path_index = index,
                                 !.current_vertex = next_vertex]
    IN  IF index = Len(robot.path) - 1
        THEN UpdateResult([arrived EXCEPT !.state = COMPLETED], reserved,
                          <<"reached_destination">>)
        ELSE UpdateResult([arrived EXCEPT !.state = IDLE], reserved,
                          <<"arrived_at", next_vertex>>)

\* Mutant: every arrival leaves the robot idle, the final one too.
Arrive_always_idle(robot, ng) ==
    LET index == robot.current_path_index + 1
        next_vertex == robot.path[index + 1]
        prev_vertex == robot.path[index]
        released == release_lane(ng, prev_vertex, next_vertex, robot.id)
        reserved == reserve_vertex(released, next_vertex, robot.id).ng
        arrived == [robot EXCEPT !.position = robot.target_position,
                                 !.current_path_index = index,
                                 !.current_vertex = next_vertex]
    IN  UpdateResult([arrived EXCEPT !.state = IDLE], reserved,
                     <<"arrived_at", next_vertex>>)

\* Lines 128-153: the robot has reached its target position.
Arrive(robot, ng) ==
    LET index == robot.current_path_index + 1
        next_vertex == robot.path[index + 1]
        prev_vertex == robot.path[index]
        released == release_lane(ng, prev_vertex, next_vertex, robot.id)
        reserved == reserve_vertex(released, next_vertex, robot.id).ng
        arrived == [robot EXCEPT !.position = robot.target_position,
                                 !.current_path_index = index,
                                 !.current_vertex = next_vertex]
    IN  IF index = Len(robot.path) - 1
        THEN UpdateResult([arrived EXCEPT !.state = COMPLETED], reserved,
                          <<"reached_destination">>)
        ELSE UpdateResult([arrived EXCEPT !.state = IDLE], reserved,
                          <<"arrived_at", next_vertex>>)

\* Mutant: the robot counts as arrived one step length away from its
\* target already.
Advance_arriving_early(robot, ng) ==
    LET direction == <<robot.target_position[1] - robot.position[1],
                       robot.target_position[2] - robot.position[2]>>
    IN  IF direction[1] * direction[1] + direction[2] * direction[2]
               <= move_speed * move_speed
        THEN Arrive(robot, ng)
        ELSE UpdateResult(
                 [robot EXCEPT !.position =
                     <<robot.position[1] + Movement(direction)[1],
                       robot.position[2] + Movement(direction)[2]>>],
                 ng, NoEvent)

\* Lines 121-158: one step of a moving robot.
Advance(robot, ng) ==
    LET direction == <<robot.target_position[1] - robot.position[1],
                       robot.target_position[2] - robot.position[2]>>
    IN  IF Reached(direction)
        THEN Arrive(robot, ng)
        ELSE UpdateResult(
                 [robot EXCEPT !.position =
                     <<robot.position[1] + Movement(direction)[1],
                       robot.position[2] + Movement(direction)[2]>>],
                 ng, NoEvent)

\* Mutant: a moving robot advances only in a tick whose delta_time is
\* above 16 milliseconds.
update_timed(robot, ng, delta_time) ==
    IF robot.state = IDLE /\ ng.vertices[robot.current_vertex].is_charger
    THEN UpdateResult([robot EXCEPT !.state = CHARGING], ng, <<"started_charging">>)
    ELSE IF Len(robot.path) > 0 /\ robot.current_path_index < Len(robot.path) - 1
         THEN IF robot.state = IDLE \/ robot.state = CHARGING
              THEN TryDepart(robot, ng)
              ELSE IF robot.state = MOVING
                   THEN IF delta_time > 16 THEN Advance(robot, ng)
                        ELSE UpdateResult(robot, ng, NoEvent)
                   ELSE IF robot.state = WAITING
                        THEN TryDepart(robot, ng)
                        ELSE UpdateResult(robot, ng, NoEvent)
         ELSE UpdateResult(robot, ng, NoEvent)

\* Mutant: a completed robot on a charger starts charging as an idle one does.
update_charging_completed(robot, ng, delta_time) ==
    IF robot.state \in {IDLE, COMPLETED} /\ ng.vertices[robot.current_vertex].is_charger
    THEN UpdateResult([robot EXCEPT !.state = CHARGING], ng, <<"started_charging">>)
    ELSE IF Len(robot.path) > 0 /\ robot.current_path_index < Len(robot.path) - 1
         THEN IF robot.state = IDLE \/ robot.state = CHARGING
              THEN TryDepart(robot, ng)
              ELSE IF robot.state = MOVING
                   THEN Advance(robot, ng)
                   ELSE IF robot.state = WAITING
                        THEN TryDepart(robot, ng)
                        ELSE UpdateResult(robot, ng, NoEvent)
         ELSE UpdateResult(robot, ng, NoEvent)

\* Mutant: a completed robot is made idle again by its next update.
update_idling_completed(robot, ng, delta_time) ==
    IF robot.state = IDLE /\ ng.vertices[robot.current_vertex].is_charger
    THEN UpdateResult([robot EXCEPT !.state = CHARGING], ng, <<"started_charging">>)
    ELSE IF Len(robot.path) > 0 /\ robot.current_path_index < Len(robot.path) - 1
         THEN IF robot.state = IDLE \/ robot.state = CHARGING
              THEN TryDepart(robot, ng)
              ELSE IF robot.state = MOVING
                   THEN Advance(robot, ng)
                   ELSE IF robot.state = WAITING
                        THEN TryDepart(robot, ng)
                        ELSE UpdateResult(robot, ng, NoEvent)
         ELSE IF robot.state = COMPLETED
              THEN UpdateResult([robot EXCEPT !.state = IDLE], ng, NoEvent)
              ELSE UpdateResult(robot, ng, NoEvent)

\* Robot.update.
update(robot, ng, delta_time) ==
    IF robot.state = IDLE /\ ng.vertices[robot.current_vertex].is_charger
    THEN UpdateResult([robot EXCEPT !.state = CHARGING], ng, <<"started_charging">>)
    ELSE IF Len(robot.path) > 0 /\ robot.current_path_index < Len(robot.path) - 1
         THEN IF robot.state = IDLE \/ robot.state = CHARGING
              THEN TryDepart(robot, ng)
              ELSE IF robot.state = MOVING
                   THEN Advance(robot, ng)
                   ELSE IF robot.state = WAITING
                        THEN TryDepart(robot, ng)
                        ELSE UpdateResult(robot, ng, NoEvent)
         ELSE UpdateResult(robot, ng, NoEvent)

-----------------------------------------------------------------------------
(* FleetManager.  fm is the manager object: its robots, next_robot_id and  *)
(* selected_robot.  Each operation gives the value it returns (ret) and    *)
(* the objects it leaves.                                                  *)

FleetManager(rs, next_id, selection) ==
    [robots |-> rs, next_robot_id |-> next_id, selected_robot |-> selection]

fleet_manager == FleetManager(robots, next_robot_id, selected_robot)

\* Mutant: the counter advances before the occupancy check, so a refused
\* spawn uses up an id.
spawn_robot_burning_id(fm, ng, vertex_id) ==
    IF ng.vertices[vertex_id].occupying_robot # None
    THEN [ret |-> None,
          fm |-> [fm EXCEPT !.next_robot_id = fm.next_robot_id + 1],
          ng |-> ng]
    ELSE LET made == RobotInit(fm.next_robot_id, vertex_id, ng)
         IN  [ret |-> fm.next_robot_id,
              fm |-> [fm EXCEPT !.robots = Append(fm.robots, made.robot),
                                !.next_robot_id = fm.next_robot_id + 1],
              ng |-> made.ng]

\* Mutant: the counter is not advanced after a spawn.
spawn_robot_reusing_id(fm, ng, vertex_id) ==
    IF ng.vertices[vertex_id].occupying_robot # None
    THEN [ret |-> None, fm |-> fm, ng |-> ng]
    ELSE LET made == RobotInit(fm.next_robot_id, vertex_id, ng)
         IN  [ret |-> fm.next_robot_id,
              fm |-> [fm EXCEPT !.robots = Append(fm.robots, made.robot)],
              ng |-> made.ng]

\* FleetManager.spawn_robot: None on an occupied vertex.
spawn_robot(fm, ng, vertex_id) ==
    IF ng.vertices[vertex_id].occupying_robot # None
    THEN [ret |-> None, fm |-> fm, ng |-> ng]
    ELSE LET made == RobotInit(fm.next_robot_id, vertex_id, ng)
         IN  [ret |-> fm.next_robot_id,
              fm |-> [fm EXCEPT !.robots = Append(fm.robots, made.robot),
                                !.next_robot_id = fm.next_robot_id + 1],
              ng |-> made.ng]

\* Squared distance from a robot's position to the point (x, y).
Distance2(robot, x, y) ==
    (robot.position[1] - x) * (robot.position[1] - x)
        + (robot.position[2] - y) * (robot.position[2] - y)

\* Mutant: the loop of select_robot with distance <= min_distance.
RECURSIVE SelectLoop_le(_, _, _, _, _, _)
SelectLoop_le(rs, k, x, y, min_distance2, selected) ==
    IF k > Len(rs) THEN selected
    ELSE IF Distance2(rs[k], x, y) <= min_distance2
         THEN SelectLoop_le(rs, k + 1, x, y, Distance2(rs[k], x, y), rs[k].id)
         ELSE SelectLoop_le(rs, k + 1, x, y, min_distance2, selected)

\* The loop of select_robot from robot k on: selected so far, and the
\* square of min_distance so far; distance < min_distance is compared on
\* the squares.
RECURSIVE SelectLoop(_, _, _, _, _, _)
SelectLoop(rs, k, x, y, min_distance2, selected) ==
    IF k > Len(rs) THEN selected
    ELSE IF Distance2(rs[k], x, y) < min_distance2
         THEN SelectLoop(rs, k + 1, x, y, Distance2(rs[k], x, y), rs[k].id)
         ELSE SelectLoop(rs, k + 1, x, y, min_distance2, selected)

\* FleetManager.select_robot.
select_robot(fm, x, y, tol) ==
    LET selected == SelectLoop(fm.robots, 1, x, y, tol * tol, None)
    IN  [ret |-> selected,
         fm |-> IF selected # None
                THEN [fm EXCEPT !.selected_robot = selected]
                ELSE fm]

\* The robot registered under robot_id (ids are the keys of the dict).
RobotIndex(rs, robot_id) == CHOOSE k \in DOMAIN rs : rs[k].id = robot_id

\* Mutant: the task goes to the first robot of the registry, whichever
\* robot is selected.
assign_navigation_task_first_robot(fm, ng, destination_vertex) ==
    IF \/ fm.selected_robot = None
       \/ ~(\E k \in DOMAIN fm.robots : fm.robots[k].id = fm.selected_robot)
    THEN {[ret |-> FALSE, fm |-> fm, ng |-> ng]}
    ELSE {[ret |-> out.ret,
           fm |-> [fm EXCEPT !.robots[1] = out.robot],
           ng |-> out.ng] :
             out \in assign_task(fm.robots[1], ng, destination_vertex)}

\* FleetManager.assign_navigation_task: the set of outcomes.
assign_navigation_task(fm, ng, destination_vertex) ==
    IF \/ fm.selected_robot = None
       \/ ~(\E k \in DOMAIN fm.robots : fm.robots[k].id = fm.selected_robot)
    THEN {[ret |-> FALSE, fm |-> fm, ng |-> ng]}
    ELSE LET k == RobotIndex(fm.robots, fm.selected_robot)
         IN  {[ret |-> out.ret,
               fm |-> [fm EXCEPT !.robots[k] = out.robot],
               ng |-> out.ng] :
                 out \in assign_task(fm.robots[k], ng, destination_vertex)}

-----------------------------------------------------------------------------
(* TrafficManager *)

\* TrafficManager.check_path_conflicts: the conflicts from segment i of the
\* path on.  Of the lanes of a segment only the first in the list is
\* looked at (the loop breaks there); the vertex at the segment's end is
\* a conflict whenever it has an occupant.
RECURSIVE ConflictsFrom(_, _, _, _)
ConflictsFrom(ng, robot_id, path, i) ==
    IF i > Len(path) - 1 THEN <<>>
    ELSE LET from_vertex == path[i]
             to_vertex == path[i + 1]
             match == MatchingLanes(ng, from_vertex, to_vertex)
             lane_conflict ==
                 IF match # {}
                    /\ ng.lanes[SetMin(match)].occupying_robot # None
                    /\ ng.lanes[SetMin(match)].occupying_robot # robot_id
                 THEN <<to_vertex>> ELSE <<>>
             vertex_conflict ==
                 IF ng.vertices[to_vertex].occupying_robot # None
                 THEN <<to_vertex>> ELSE <<>>
         IN  lane_conflict \o vertex_conflict \o ConflictsFrom(ng, robot_id, path, i + 1)

\* The list check_path_conflicts returns and the graph it leaves.
check_path_conflicts(ng, robot_id, path) ==
    [ret |-> ConflictsFrom(ng, robot_id, path, 1), ng |-> ng]

\* Mutant: the waiting robots are collected latest registered first.
waiting_robots_latest_first(rs) ==
    LET ids == SelectSeq([k \in DOMAIN rs |-> rs[k].id],
                         LAMBDA robot_id : rs[RobotIndex(rs, robot_id)].state = WAITING)
    IN  [i \in DOMAIN ids |-> ids[Len(ids) + 1 - i]]

\* Mutant: the moving robots are collected with the waiting ones.
waiting_robots_including_moving(rs) ==
    SelectSeq([k \in DOMAIN rs |-> rs[k].id],
              LAMBDA robot_id :
                  rs[RobotIndex(rs, robot_id)].state \in {WAITING, MOVING})

\* Ids of the waiting robots, in registry order.
waiting_robots(rs) ==
    SelectSeq([k \in DOMAIN rs |-> rs[k].id],
              LAMBDA robot_id : rs[RobotIndex(rs, robot_id)].state = WAITING)

\* The entries resolve_deadlocks logs, one for each lane it clears, in
\* list order: the robot prioritized and the robot it is prioritized over.
ResolutionLog(ng, cleared, prioritized_robot_id) ==
    LET entries == [k \in DOMAIN ng.lanes |->
                       <<"traffic_manager", prioritized_robot_id,
                         ng.lanes[k].occupying_robot>>]
        kept == SelectSeq([k \in DOMAIN ng.lanes |-> k], LAMBDA k : k \in cleared)
    IN  [i \in DOMAIN kept |-> entries[kept[i]]]

\* Mutant: a cleared lane is also blocked against new reservations.
resolve_deadlocks_blocking_lane(rs, ng) ==
    IF waiting_robots(rs) = <<>>
    THEN [ret |-> 0, ng |-> ng, log |-> <<>>]
    ELSE LET prioritized_robot_id == waiting_robots(rs)[1]
             robot == rs[RobotIndex(rs, prioritized_robot_id)]
         IN  IF Len(robot.path) > 0 /\ robot.current_path_index < Len(robot.path) - 1
             THEN LET next_vertex == robot.path[robot.current_path_index + 2]
                      cleared == {k \in MatchingLanes(ng, robot.current_vertex, next_vertex) :
                                     ng.lanes[k].occupying_robot # None}
                  IN  [ret |-> Cardinality(cleared),
                       ng |-> [ng EXCEPT !.lanes =
                                 [k \in DOMAIN ng.lanes |->
                                     IF k \in cleared
                                     THEN [ng.lanes[k] EXCEPT !.occupying_robot = None,
                                                              !.is_blocked = TRUE]
                                     ELSE ng.lanes[k]]],
                       log |-> ResolutionLog(ng, cleared, prioritized_robot_id)]
             ELSE [ret |-> 0, ng |-> ng, log |-> <<>>]

\* Mutant: the lane is handed to the prioritized robot, not cleared.
resolve_deadlocks_granting_lane(rs, ng) ==
    IF waiting_robots(rs) = <<>>
    THEN [ret |-> 0, ng |-> ng, log |-> <<>>]
    ELSE LET prioritized_robot_id == waiting_robots(rs)[1]
             robot == rs[RobotIndex(rs, prioritized_robot_id)]
         IN  IF Len(robot.path) > 0 /\ robot.current_path_index < Len(robot.path) - 1
             THEN LET next_vertex == robot.path[robot.current_path_index + 2]
                      cleared == {k \in MatchingLanes(ng, robot.current_vertex, next_vertex) :
                                     ng.lanes[k].occupying_robot # None}
                  IN  [ret |-> Cardinality(cleared),
                       ng |-> [ng EXCEPT !.lanes =
                                 [k \in DOMAIN ng.lanes |->
                                     IF k \in cleared
                                     THEN [ng.lanes[k] EXCEPT
                                              !.occupying_robot = prioritized_robot_id]
                                     ELSE ng.lanes[k]]],
                       log |-> ResolutionLog(ng, cleared, prioritized_robot_id)]
             ELSE [ret |-> 0, ng |-> ng, log |-> <<>>]

\* TrafficManager.resolve_deadlocks: the count returned, the graph left
\* and the entries logged.  The lane loop does not stop at the first
\* matching lane.
resolve_deadlocks(rs, ng) ==
    IF waiting_robots(rs) = <<>>
    THEN [ret |-> 0, ng |-> ng, log |-> <<>>]
    ELSE LET prioritized_robot_id == waiting_robots(rs)[1]
             robot == rs[RobotIndex(rs, prioritized_robot_id)]
         IN  IF Len(robot.path) > 0 /\ robot.current_path_index < Len(robot.path) - 1
             THEN LET next_vertex == robot.path[robot.current_path_index + 2]
                      cleared == {k \in MatchingLanes(ng, robot.current_vertex, next_vertex) :
                                     ng.lanes[k].occupying_robot # None}
                  IN  [ret |-> Cardinality(cleared),
                       ng |-> [ng EXCEPT !.lanes =
                                 [k \in DOMAIN ng.lanes |->
                                     IF k \in cleared
                                     THEN [ng.lanes[k] EXCEPT !.occupying_robot = None]
                                     ELSE ng.lanes[k]]],
                       log |-> ResolutionLog(ng, cleared, prioritized_robot_id)]
             ELSE [ret |-> 0, ng |-> ng, log |-> <<>>]

-----------------------------------------------------------------------------
(* The main loop: handle the pending input events, then                    *)
(* fleet_manager.update (one robot after the other), then                  *)
(* traffic_manager.update.                                                 *)

\* Values of delta_time, the wall-clock milliseconds since the previous frame.
DeltaTimes == {16, 17}

\* Points a click may land on: each vertex, and a far corner.
Clicks(ng) == {get_scaled_position(ng, v) : v \in VertexIds(ng)} \cup {<<0, 0>>}

Init ==
    /\ \E doc \in Docs :
        /\ vertices = LoadVertices(doc)
        /\ lanes = LoadLanes(doc)
    /\ robots = <<>>
    /\ next_robot_id = 0
    /\ selected_robot = None
    /\ pc = "events"
    /\ cursor = 0
    /\ assigned = 0
    /\ event_log = <<>>

\* The input handler calls spawn_robot with the vertex of a click; the
\* fleet is let to grow to max_robots robots.
SpawnRobotWithin(vertex_id, max_robots) ==
    LET out == spawn_robot(fleet_manager, nav_graph, vertex_id)
    IN  /\ pc = "events"
        /\ out.ret # None => next_robot_id < max_robots
        /\ robots' = out.fm.robots
        /\ next_robot_id' = out.fm.next_robot_id
        /\ selected_robot' = out.fm.selected_robot
        /\ vertices' = out.ng.vertices
        /\ lanes' = out.ng.lanes
        /\ UNCHANGED <<pc, cursor, assigned, event_log>>

SpawnRobot(vertex_id) == SpawnRobotWithin(vertex_id, MaxRobots)

\* The input handler calls select_robot with the point of a click.
SelectRobot(point) ==
    LET out == select_robot(fleet_manager, point[1], point[2], tolerance)
    IN  /\ pc = "events"
        /\ robots' = out.fm.robots
        /\ next_robot_id' = out.fm.next_robot_id
        /\ selected_robot' = out.fm.selected_robot
        /\ UNCHANGED <<vertices, lanes, pc, cursor, assigned, event_log>>

\* The input handler calls assign_navigation_task with the vertex of a
\* click; max_tasks tasks are let to be assigned in a run.
AssignNavigationTaskWithin(destination_vertex, max_tasks) ==
    /\ pc = "events"
    /\ \E out \in assign_navigation_task(fleet_manager, nav_graph,
                                         destination_vertex) :
        /\ out.ret => assigned < max_tasks
        /\ robots' = out.fm.robots
        /\ next_robot_id' = out.fm.next_robot_id
        /\ selected_robot' = out.fm.selected_robot
        /\ vertices' = out.ng.vertices
        /\ lanes' = out.ng.lanes
        /\ assigned' = IF out.ret THEN assigned + 1 ELSE assigned
    /\ UNCHANGED <<pc, cursor, event_log>>

AssignNavigationTask(destination_vertex) ==
    AssignNavigationTaskWithin(destination_vertex, MaxTasks)

\* The events are handled: fleet_manager.update starts its loop.
StartTick ==
    /\ pc = "events"
    /\ pc' = "update"
    /\ cursor' = 1
    /\ UNCHANGED <<vertices, lanes, robots, next_robot_id, selected_robot, assigned,
                   event_log>>

\* One iteration of the loop of FleetManager.update: the robot's update,
\* logged when it reports an event.
UpdateRobot ==
    /\ pc = "update"
    /\ cursor <= Len(robots)
    /\ \E delta_time \in DeltaTimes :
        LET out == update(robots[cursor], nav_graph, delta_time)
        IN  /\ robots' = [robots EXCEPT ![cursor] = out.robot]
            /\ vertices' = out.ng.vertices
            /\ lanes' = out.ng.lanes
            /\ event_log' =
                   IF out.event = NoEvent THEN event_log
                   ELSE Append(event_log,
                               <<"robot", out.robot.id, out.robot.state, out.event>>)
    /\ cursor' = cursor + 1
    /\ UNCHANGED <<next_robot_id, selected_robot, pc, assigned>>

\* TrafficManager.update, after the final robot: the frame ends.
TrafficUpdate ==
    LET out == resolve_deadlocks(robots, nav_graph)
    IN  /\ pc = "update"
        /\ cursor > Len(robots)
        /\ vertices' = out.ng.vertices
        /\ lanes' = out.ng.lanes
        /\ event_log' = out.log
        /\ pc' = "events"
        /\ cursor' = 0
        /\ UNCHANGED <<robots, next_robot_id, selected_robot, assigned>>

Next ==
    \/ \E vertex_id \in VertexIds(nav_graph) : SpawnRobot(vertex_id)
    \/ \E point \in Clicks(nav_graph) : SelectRobot(point)
    \/ \E destination_vertex \in VertexIds(nav_graph) :
           AssignNavigationTask(destination_vertex)
    \/ StartTick
    \/ UpdateRobot
    \/ TrafficUpdate

Spec == Init /\ [][Next]_vars

-----------------------------------------------------------------------------
(* The reservation store on its own: any client calling the four           *)
(* reserve/release operations, from any occupancy and any manual blocks.   *)

Occupants == RobotIds \cup {None}

InitStore ==
    /\ \E doc \in Docs :
        \E vocc \in [DOMAIN LoadVertices(doc) -> Occupants],
           locc \in [DOMAIN LoadLanes(doc) -> Occupants],
           blocked \in [DOMAIN LoadLanes(doc) -> BOOLEAN] :
            /\ vertices = [v \in DOMAIN LoadVertices(doc) |->
                              [LoadVertices(doc)[v] EXCEPT !.occupying_robot = vocc[v]]]
            /\ lanes = [k \in DOMAIN LoadLanes(doc) |->
                           [LoadLanes(doc)[k] EXCEPT !.occupying_robot = locc[k],
                                                     !.is_blocked = blocked[k]]]
    /\ robots = <<>>
    /\ next_robot_id = 0
    /\ selected_robot = None
    /\ pc = "store"
    /\ cursor = 0
    /\ assigned = 0
    /\ event_log = <<>>

StoreFrame ==
    UNCHANGED <<robots, next_robot_id, selected_robot, pc, cursor, assigned, event_log>>

ReserveVertex(vertex_id, robot_id) ==
    LET out == reserve_vertex(nav_graph, vertex_id, robot_id)
    IN  /\ pc = "store"
        /\ vertices' = out.ng.vertices
        /\ lanes' = out.ng.lanes
        /\ StoreFrame

ReleaseVertex(vertex_id, robot_id) ==
    LET out == release_vertex(nav_graph, vertex_id, robot_id)
    IN  /\ pc = "store"
        /\ vertices' = out.vertices
        /\ lanes' = out.lanes
        /\ StoreFrame

ReserveLane(from_vertex, to_vertex, robot_id) ==
    LET out == reserve_lane(nav_graph, from_vertex, to_vertex, robot_id)
    IN  /\ pc = "store"
        /\ vertices' = out.ng.vertices
        /\ lanes' = out.ng.lanes
        /\ StoreFrame

ReleaseLane(from_vertex, to_vertex, robot_id) ==
    LET out == release_lane(nav_graph, from_vertex, to_vertex, robot_id)
    IN  /\ pc = "store"
        /\ vertices' = out.vertices
        /\ lanes' = out.lanes
        /\ StoreFrame

NextStore ==
    \/ \E v \in VertexIds(nav_graph), a \in RobotIds : ReserveVertex(v, a)
    \/ \E v \in VertexIds(nav_graph), a \in RobotIds : ReleaseVertex(v, a)
    \/ \E f \in VertexIds(nav_graph), t \in VertexIds(nav_graph), a \in RobotIds :
           ReserveLane(f, t, a)
    \/ \E f \in VertexIds(nav_graph), t \in VertexIds(nav_graph), a \in RobotIds :
           ReleaseLane(f, t, a)

SpecStore == InitStore /\ [][NextStore]_vars

-----------------------------------------------------------------------------
(* Properties of the reservation store, checked under SpecStore.           *)

\* The lane records from from_vertex to to_vertex.
LanesBetween(from_vertex, to_vertex) ==
    {k \in DOMAIN lanes :
        lanes[k].from_vertex = from_vertex /\ lanes[k].to_vertex = to_vertex}

\* C2: reserve_vertex(v, a) returns true exactly when v has no occupant,
\* and then makes a the occupant of v and changes nothing else; in every
\* other case, also when a itself occupies v, it returns false and leaves
\* the whole store as it was.
C2_ReserveVertex ==
    \A v \in DOMAIN vertices, a \in RobotIds :
        LET out == reserve_vertex(nav_graph, v, a)
            free == vertices[v].occupying_robot = None
        IN  /\ out.ret = free
            /\ free =>
                /\ out.ng.vertices[v].occupying_robot = a
                /\ out.ng.vertices =
                       [vertices EXCEPT ![v] = [vertices[v] EXCEPT !.occupying_robot = a]]
                /\ out.ng.lanes = lanes
            /\ ~free =>
                /\ out.ng.vertices = vertices
                /\ out.ng.lanes = lanes

\* C2's case: a vertex a robot already holds (re-reserving it fails) beside
\* a free vertex (reserving it succeeds).
C2_Witness ==
    \E v \in DOMAIN vertices, w \in DOMAIN vertices, a \in RobotIds :
        /\ vertices[v].occupying_robot = a
        /\ ~reserve_vertex(nav_graph, v, a).ret
        /\ vertices[w].occupying_robot = None
        /\ reserve_vertex(nav_graph, w, a).ret
        /\ reserve_vertex(nav_graph, w, a).ng.vertices[w].occupying_robot = a

\* C3: reserve_lane(from, to, a) returns true exactly when a lane
\* (from, to) exists that has no occupant and is not blocked, and then
\* makes a the occupant of that lane and changes nothing else; otherwise
\* it returns false and leaves the whole store as it was.
C3_ReserveLane ==
    \A f \in DOMAIN vertices, t \in DOMAIN vertices, a \in RobotIds :
        LET out == reserve_lane(nav_graph, f, t, a)
            ok == \E k \in LanesBetween(f, t) :
                      lanes[k].occupying_robot = None /\ ~lanes[k].is_blocked
        IN  /\ out.ret = ok
            /\ out.ng.vertices = vertices
            /\ ok =>
                out.ng.lanes =
                    [k \in DOMAIN lanes |->
                        IF k \in LanesBetween(f, t)
                        THEN [lanes[k] EXCEPT !.occupying_robot = a]
                        ELSE lanes[k]]
            /\ ~ok => out.ng.lanes = lanes

\* C3's cases together: a free lane that is blocked (refused), a free
\* lane that is not (granted), an occupied lane and a pair of vertices
\* with no lane between them (both refused).
C3_Witness ==
    /\ \E k \in DOMAIN lanes, a \in RobotIds :
        /\ lanes[k].occupying_robot = None
        /\ lanes[k].is_blocked
        /\ ~reserve_lane(nav_graph, lanes[k].from_vertex, lanes[k].to_vertex, a).ret
    /\ \E k \in DOMAIN lanes, a \in RobotIds :
        /\ lanes[k].occupying_robot = None
        /\ ~lanes[k].is_blocked
        /\ reserve_lane(nav_graph, lanes[k].from_vertex, lanes[k].to_vertex, a).ret
    /\ \E k \in DOMAIN lanes, a \in RobotIds :
        /\ lanes[k].occupying_robot \notin {None, a}
        /\ ~reserve_lane(nav_graph, lanes[k].from_vertex, lanes[k].to_vertex, a).ret
    /\ \E f \in DOMAIN vertices, t \in DOMAIN vertices, a \in RobotIds :
        /\ LanesBetween(f, t) = {}
        /\ ~reserve_lane(nav_graph, f, t, a).ret

\* C4: release_vertex(v, a) and release_lane(from, to, a) clear the
\* occupancy exactly when the occupant is a; when the vertex or lane is
\* free or held by another robot, or there is no such lane, the store is
\* left as it was.
C4_Release ==
    /\ \A v \in DOMAIN vertices, a \in RobotIds :
        LET out == release_vertex(nav_graph, v, a)
        IN  /\ out.lanes = lanes
            /\ out.vertices =
                   IF vertices[v].occupying_robot = a
                   THEN [vertices EXCEPT ![v] = [vertices[v] EXCEPT !.occupying_robot = None]]
                   ELSE vertices
    /\ \A f \in DOMAIN vertices, t \in DOMAIN vertices, a \in RobotIds :
        LET out == release_lane(nav_graph, f, t, a)
        IN  /\ out.vertices = vertices
            /\ out.lanes =
                   [k \in DOMAIN lanes |->
                       IF k \in LanesBetween(f, t) /\ lanes[k].occupying_robot = a
                       THEN [lanes[k] EXCEPT !.occupying_robot = None]
                       ELSE lanes[k]]

\* C4's cases together: a vertex and a lane held by a (released by a),
\* and a vertex and a lane held by another robot (a's release does
\* nothing).
C4_Witness ==
    \E v \in DOMAIN vertices, w \in DOMAIN vertices,
       k \in DOMAIN lanes, j \in DOMAIN lanes, a \in RobotIds :
        /\ vertices[v].occupying_robot = a
        /\ release_vertex(nav_graph, v, a).vertices[v].occupying_robot = None
        /\ vertices[w].occupying_robot \notin {None, a}
        /\ release_vertex(nav_graph, w, a) = nav_graph
        /\ lanes[k].occupying_robot = a
        /\ release_lane(nav_graph, lanes[k].from_vertex, lanes[k].to_vertex, a)
               .lanes[k].occupying_robot = None
        /\ lanes[j].occupying_robot \notin {None, a}
        /\ release_lane(nav_graph, lanes[j].from_vertex, lanes[j].to_vertex, a) = nav_graph

-----------------------------------------------------------------------------
(* Properties of the running system, checked under Spec.                   *)

\* The walks of the graph that start at a and have at most n vertices:
\* vertex sequences that follow a lane at every step.
RECURSIVE WalksFrom(_, _)
WalksFrom(a, n) ==
    IF n <= 1 THEN {<<a>>}
    ELSE LET shorter == WalksFrom(a, n - 1)
         IN  shorter \cup
                 {Append(pt[1], pt[2]) :
                     pt \in {qt \in shorter \X DOMAIN vertices :
                                /\ Len(qt[1]) = n - 1
                                /\ LanesBetween(qt[1][n - 1], qt[2]) # {}}}

\* The walks from a to b that are no longer than the number of vertices.
WalksBetween(a, b) ==
    {p \in WalksFrom(a, Cardinality(DOMAIN vertices)) : p[Len(p)] = b}

\* An UpdateRobot step: the update of robots[cursor].
IsUpdateStep == pc = "update" /\ cursor <= Len(robots) /\ cursor' = cursor + 1

\* Two robots stand on (are not moving and have) the same current vertex.
SharedVertex ==
    \E k \in DOMAIN robots, j \in DOMAIN robots :
        /\ k # j
        /\ robots[k].state # MOVING
        /\ robots[j].state # MOVING
        /\ robots[k].current_vertex = robots[j].current_vertex

\* The lane a moving robot is on.
LaneOf(robot) ==
    <<robot.path[robot.current_path_index + 1], robot.path[robot.current_path_index + 2]>>

\* Two robots are moving along the same lane.
SharedLane ==
    \E k \in DOMAIN robots, j \in DOMAIN robots :
        /\ k # j
        /\ robots[k].state = MOVING
        /\ robots[j].state = MOVING
        /\ LaneOf(robots[k]) = LaneOf(robots[j])

\* C1: at the end of every tick in which resolve_deadlocks revokes no
\* lane reservation, no two robots share a vertex and no two robots share
\* a lane.
C1_NoSharing ==
    [][(pc = "update" /\ pc' = "events" /\ lanes' = lanes)
          => (~SharedVertex /\ ~SharedLane)']_vars

\* C5: spawn_robot on an occupied vertex returns None and leaves the
\* store, the registry, the id counter and the selection as they were.
C5_SpawnOccupied ==
    \A v \in DOMAIN vertices :
        vertices[v].occupying_robot # None =>
            LET out == spawn_robot(fleet_manager, nav_graph, v)
            IN  /\ out.ret = None
                /\ out.ng.vertices = vertices
                /\ out.ng.lanes = lanes
                /\ out.fm.robots = robots
                /\ out.fm.next_robot_id = next_robot_id
                /\ out.fm.selected_robot = selected_robot

\* C5's case: between ticks, with a robot selected and room for another
\* robot, a vertex that is occupied.
C5_Witness ==
    /\ pc = "events"
    /\ selected_robot # None
    /\ next_robot_id < MaxRobots
    /\ \E v \in DOMAIN vertices :
        /\ vertices[v].occupying_robot # None
        /\ spawn_robot(fleet_manager, nav_graph, v).ret = None

\* C6: a spawn on a free vertex returns next_robot_id, appends a robot
\* with that id that is idle at the vertex with an empty path, makes it
\* the vertex's occupant and advances the counter by one; the registered
\* ids are 0, 1, 2, ... in order of registration and the counter is their
\* number; a refused spawn leaves the counter alone.
C6_SpawnSequentialIds ==
    /\ next_robot_id = Len(robots)
    /\ \A k \in DOMAIN robots : robots[k].id = k - 1
    /\ \A v \in DOMAIN vertices :
        LET out == spawn_robot(fleet_manager, nav_graph, v)
        IN  IF vertices[v].occupying_robot = None
            THEN /\ out.ret = next_robot_id
                 /\ out.fm.next_robot_id = next_robot_id + 1
                 /\ Len(out.fm.robots) = Len(robots) + 1
                 /\ \A k \in DOMAIN robots : out.fm.robots[k] = robots[k]
                 /\ LET robot == out.fm.robots[Len(robots) + 1]
                    IN  /\ robot.id = out.ret
                        /\ robot.state = IDLE
                        /\ robot.current_vertex = v
                        /\ robot.path = <<>>
                 /\ out.ng.vertices[v].occupying_robot = out.ret
                 /\ \A w \in DOMAIN vertices \ {v} : out.ng.vertices[w] = vertices[w]
                 /\ out.ng.lanes = lanes
            ELSE /\ out.ret = None
                 /\ out.fm.next_robot_id = next_robot_id

\* C6's case: two spawns have succeeded, a vertex is occupied (a spawn
\* there is refused) and another is free.
C6_Witness ==
    /\ Len(robots) = 2
    /\ robots[1].id = 0
    /\ robots[2].id = 1
    /\ \E v \in DOMAIN vertices, w \in DOMAIN vertices :
        /\ vertices[v].occupying_robot = 1
        /\ vertices[w].occupying_robot = None
        /\ spawn_robot(fleet_manager, nav_graph, w).ret = 2

\* C7: assign_task(d) returns False and leaves the robot (state, path,
\* path index, target vertex, current vertex) and the whole store as they
\* were whenever the robot is moving, waiting or charging, and whenever
\* the graph has no path from the robot's current vertex to d.
C7_AssignRefused ==
    \A k \in DOMAIN robots, d \in DOMAIN vertices :
        (\/ robots[k].state \in {MOVING, WAITING, CHARGING}
         \/ WalksBetween(robots[k].current_vertex, d) = {})
            => assign_task(robots[k], nav_graph, d)
                   = {[ret |-> FALSE, robot |-> robots[k], ng |-> nav_graph]}

\* C7's cases: between ticks, the selected robot is charging at a vertex
\* with a way out (refused for its state) while another robot is idle at
\* a vertex from which some vertex cannot be reached (refused for want of
\* a path).
C7_Witness ==
    /\ pc = "events"
    /\ assigned < MaxTasks
    /\ \E k \in DOMAIN robots, j \in DOMAIN robots, d \in DOMAIN vertices, e \in DOMAIN vertices :
        /\ robots[k].id = selected_robot
        /\ robots[k].state = CHARGING
        /\ d # robots[k].current_vertex
        /\ WalksBetween(robots[k].current_vertex, d) # {}
        /\ \A out \in assign_task(robots[k], nav_graph, d) : ~out.ret
        /\ robots[j].state = IDLE
        /\ WalksBetween(robots[j].current_vertex, e) = {}
        /\ \A out \in assign_task(robots[j], nav_graph, e) : ~out.ret

\* C8: when the robot is idle or completed and the graph has a path from
\* its current vertex to d, assign_task(d) returns True; the new path is a
\* walk of the graph from the current vertex to d that no other such walk
\* is shorter than, the path index is 0, the target vertex is d, the
\* state is idle (also for a robot that was completed), the rest of the
\* robot and the whole store are as they were.
C8_AssignAccepted ==
    \A k \in DOMAIN robots, d \in DOMAIN vertices :
        (/\ robots[k].state \in {IDLE, COMPLETED}
         /\ WalksBetween(robots[k].current_vertex, d) # {})
            => LET outs == assign_task(robots[k], nav_graph, d)
               IN  /\ outs # {}
                   /\ \A out \in outs :
                       /\ out.ret
                       /\ out.robot.path \in WalksBetween(robots[k].current_vertex, d)
                       /\ \A p \in WalksBetween(robots[k].current_vertex, d) :
                              Len(out.robot.path) <= Len(p)
                       /\ out.robot.current_path_index = 0
                       /\ out.robot.target_vertex = d
                       /\ out.robot.state = IDLE
                       /\ out.robot = [robots[k] EXCEPT
                                          !.path = out.robot.path,
                                          !.current_path_index = 0,
                                          !.target_vertex = d,
                                          !.state = IDLE]
                       /\ out.ng = nav_graph

\* C8's case: between ticks, the selected robot has completed a task and
\* stands at a vertex from which another vertex can be reached; a task to
\* that vertex is accepted and makes the robot idle.
C8_Witness ==
    /\ pc = "events"
    /\ assigned < MaxTasks
    /\ \E k \in DOMAIN robots, d \in DOMAIN vertices :
        /\ robots[k].id = selected_robot
        /\ robots[k].state = COMPLETED
        /\ d # robots[k].current_vertex
        /\ \E out \in assign_task(robots[k], nav_graph, d) :
            /\ out.ret
            /\ out.robot.state = IDLE
            /\ Len(out.robot.path) > 1

\* C9: a task whose destination is the robot's current vertex gives a
\* path of exactly one element, and once the tick has updated a robot
\* with such a path the robot is completed.
C9_SelfTaskCompletes ==
    /\ \A k \in DOMAIN robots :
        \A out \in assign_task(robots[k], nav_graph, robots[k].current_vertex) :
            out.ret => Len(out.robot.path) = 1
    /\ \A k \in DOMAIN robots :
        (Len(robots[k].path) = 1 /\ pc = "update" /\ cursor > k)
            => robots[k].state = COMPLETED

\* Scenario A: the line graph V0 -> V1 -> V2 without chargers, a single
\* robot, spawned at V0 and given the task V2.
ScenarioA ==
    /\ \A v \in DOMAIN vertices : ~vertices[v].is_charger
    /\ [k \in DOMAIN lanes |-> <<lanes[k].from_vertex, lanes[k].to_vertex>>]
           = << <<0, 1>>, <<1, 2>> >>
    /\ Len(robots) = 1
    /\ robots[1].path = <<0, 1, 2>>

\* C10: in scenario A every update of the robot leaves it neither waiting
\* nor charging; the first update after the task makes it moving; a moving
\* robot stays moving on every update that does not bring it to a vertex;
\* the update that brings it to V1 leaves it idle and the update after
\* that makes it moving again; the update that brings it to V2 leaves it
\* completed.
C10_ScenarioA ==
    [][(ScenarioA /\ IsUpdateStep /\ cursor = 1) =>
          LET before == robots[1]
              after == robots'[1]
          IN  /\ after.state \notin {WAITING, CHARGING}
              /\ (before.state = IDLE /\ before.current_vertex = 0)
                     => after.state = MOVING
              /\ (before.state = MOVING /\ after.current_vertex = before.current_vertex)
                     => after.state = MOVING
              /\ (before.state = MOVING /\ after.current_vertex # before.current_vertex
                     /\ after.current_vertex = 1)
                     => after.state = IDLE
              /\ (before.state = IDLE /\ before.current_vertex = 1)
                     => after.state = MOVING
              /\ (before.state = MOVING /\ after.current_vertex # before.current_vertex
                     /\ after.current_vertex = 2)
                     => after.state = COMPLETED
              /\ before.state = COMPLETED => after = before]_vars

\* C10's case: scenario A has run to its end, the robot is completed at
\* V2 with V2 reserved and both lanes free.
C10_Witness ==
    /\ ScenarioA
    /\ pc = "events"
    /\ robots[1].state = COMPLETED
    /\ robots[1].current_vertex = 2
    /\ robots[1].current_path_index = 2
    /\ vertices[2].occupying_robot = robots[1].id
    /\ \A k \in DOMAIN lanes : lanes[k].occupying_robot = None

\* Scenario A, steps of the robot and of its lane V0 -> V1 (lanes[1]).
ReleasesLaneV0V1 ==
    /\ lanes[1].occupying_robot = robots[1].id
    /\ lanes'[1].occupying_robot = None

DepartsV1 ==
    /\ robots[1].current_vertex = 1
    /\ robots[1].state # MOVING
    /\ robots'[1].state = MOVING
    /\ lanes'[2].occupying_robot = robots[1].id

ArrivesAtV1 ==
    /\ robots[1].state = MOVING
    /\ robots[1].current_vertex = 0
    /\ robots'[1].current_vertex = 1

\* C11 as stated: in scenario A the robot's reservation of lane V0 -> V1
\* is released in the step in which the robot departs V1 (reserves
\* V1 -> V2 and becomes moving), and in no other step.
C11_ReleasedAtDeparture ==
    [][ScenarioA => (ReleasesLaneV0V1 <=> DepartsV1)]_vars

\* C11 as amended: in scenario A the robot holds lane V0 -> V1 for as long
\* as it is moving from V0, and the reservation is released in the step in
\* which the robot arrives at V1 (one tick before it departs V1), and in
\* no other step; when the robot departs V1 the lane is free already.
C11_ReleasedAtArrival ==
    [][ScenarioA =>
          /\ ReleasesLaneV0V1 <=> ArrivesAtV1
          /\ (robots[1].state = MOVING /\ robots[1].current_vertex = 0)
                 => lanes[1].occupying_robot = robots[1].id
          /\ DepartsV1 => (lanes[1].occupying_robot = None
                              /\ lanes'[1].occupying_robot = None)]_vars

\* C11's case: scenario A between the tick of the arrival at V1 and the
\* tick of the departure from V1: the robot is idle at V1 and holds V1,
\* and lane V0 -> V1 is free.
C11_Witness ==
    /\ ScenarioA
    /\ pc = "events"
    /\ robots[1].state = IDLE
    /\ robots[1].current_vertex = 1
    /\ vertices[1].occupying_robot = robots[1].id
    /\ lanes[1].occupying_robot = None
    /\ lanes[2].occupying_robot = None

\* Scenario B: the line graph V0 -> V1 -> V2 without chargers and two
\* robots: robots[a] was spawned at V0 and given the task V2, robots[b]
\* stands at V1 with no task.
ScenarioB(a, b) ==
    /\ \A v \in DOMAIN vertices : ~vertices[v].is_charger
    /\ [k \in DOMAIN lanes |-> <<lanes[k].from_vertex, lanes[k].to_vertex>>]
           = << <<0, 1>>, <<1, 2>> >>
    /\ Len(robots) = 2
    /\ {a, b} = {1, 2}
    /\ robots[a].path = <<0, 1, 2>>
    /\ robots[b].path = <<>>
    /\ robots[b].current_vertex = 1
    /\ vertices[1].occupying_robot = robots[b].id

\* C12: in scenario B every update of robot A made while B occupies V1
\* leaves A waiting.
C12_WaitsForOccupiedVertex ==
    [][\A a \in {1, 2}, b \in {1, 2} :
          (ScenarioB(a, b) /\ IsUpdateStep /\ cursor = a)
              => robots'[a].state = WAITING]_vars

\* A TrafficUpdate step: the call of resolve_deadlocks that ends a tick.
IsResolveStep == pc = "update" /\ pc' = "events"

\* The lanes whose record a step changes.
ChangedLanes == {k \in DOMAIN lanes : lanes'[k] # lanes[k]}

\* C13: every call of resolve_deadlocks returns 0 or 1; with no waiting
\* robot it returns 0 and changes nothing; the number returned is the
\* number of lanes whose record changes, and such a lane was occupied and
\* is left free with nothing else of it changed; no vertex, no is_blocked
\* flag and no robot is changed.
C13_ResolveCount ==
    [][IsResolveStep =>
          LET out == resolve_deadlocks(robots, nav_graph)
          IN  /\ out.ret \in {0, 1}
              /\ (\A k \in DOMAIN robots : robots[k].state # WAITING)
                     => (out.ret = 0 /\ lanes' = lanes)
              /\ DOMAIN lanes' = DOMAIN lanes
              /\ out.ret = Cardinality(ChangedLanes)
              /\ \A k \in ChangedLanes :
                     /\ lanes[k].occupying_robot # None
                     /\ lanes'[k] = [lanes[k] EXCEPT !.occupying_robot = None]
              /\ \A k \in DOMAIN lanes : lanes'[k].is_blocked = lanes[k].is_blocked
              /\ vertices' = vertices
              /\ robots' = robots]_vars

\* C13's case: a tick has ended with resolve_deadlocks returning 1: its
\* one log entry names a robot that is still waiting and whose lane is now
\* free, and the robot that was moving along that lane.
C13_Witness ==
    /\ pc = "events"
    /\ Len(event_log) = 1
    /\ event_log[1][1] = "traffic_manager"
    /\ \E k \in DOMAIN robots, j \in DOMAIN robots :
        /\ robots[k].id = event_log[1][2]
        /\ robots[j].id = event_log[1][3]
        /\ robots[k].state = WAITING
        /\ robots[j].state = MOVING
        /\ \A l \in LanesBetween(LaneOf(robots[j])[1], LaneOf(robots[j])[2]) :
               lanes[l].occupying_robot = None

\* The first waiting robot in registry order.
FirstWaiting ==
    CHOOSE k \in DOMAIN robots :
        /\ robots[k].state = WAITING
        /\ \A j \in DOMAIN robots : j < k => robots[j].state # WAITING

-----------------------------------------------------------------------------
(* Scenario C.  The tick loop alone never makes two robots hold each       *)
(* other's next lane, so the scenario is set up as a client of the public  *)
(* interfaces sets it up: two robots spawned on different vertices, each   *)
(* given the outcome of an assign_task call, and lanes reserved by calls   *)
(* of reserve_lane in the robots' names; then the loop ticks.              *)

\* reserve_lane called for the lanes k.. that occupant gives a robot to.
RECURSIVE ReserveLanesFor(_, _, _)
ReserveLanesFor(ng, occupant, k) ==
    IF k > Len(ng.lanes) THEN ng
    ELSE IF occupant[k] = None THEN ReserveLanesFor(ng, occupant, k + 1)
         ELSE ReserveLanesFor(
                  reserve_lane(ng, ng.lanes[k].from_vertex, ng.lanes[k].to_vertex,
                               occupant[k]).ng,
                  occupant, k + 1)

InitScenarioC ==
    /\ \E doc \in Docs :
       LET ng0 == NavGraph(LoadVertices(doc), LoadLanes(doc))
       IN  \E v1 \in VertexIds(ng0), v2 \in VertexIds(ng0),
              d1 \in VertexIds(ng0), d2 \in VertexIds(ng0),
              occupant \in [DOMAIN ng0.lanes -> {None, 0, 1}] :
           LET s1 == spawn_robot(FleetManager(<<>>, 0, None), ng0, v1)
               s2 == spawn_robot(s1.fm, s1.ng, v2)
           IN  /\ s1.ret # None
               /\ s2.ret # None
               /\ \E t1 \in assign_task(s2.fm.robots[1], s2.ng, d1),
                     t2 \in assign_task(s2.fm.robots[2], s2.ng, d2) :
                   LET ng == ReserveLanesFor(s2.ng, occupant, 1)
                   IN  /\ robots = <<t1.robot, t2.robot>>
                       /\ vertices = ng.vertices
                       /\ lanes = ng.lanes
                       /\ next_robot_id = s2.fm.next_robot_id
    /\ selected_robot = None
    /\ pc = "events"
    /\ cursor = 0
    /\ assigned = 0
    /\ event_log = <<>>

\* The main loop with no input events.
NextTicks ==
    \/ StartTick
    \/ UpdateRobot
    \/ TrafficUpdate

SpecScenarioC == InitScenarioC /\ [][NextTicks]_vars

\* Robot k has a next path vertex.
HasNextVertex(k) ==
    Len(robots[k].path) > 0 /\ robots[k].current_path_index < Len(robots[k].path) - 1

\* The lane records from robot k's current vertex to its next path vertex.
NextLanes(k) ==
    LanesBetween(robots[k].current_vertex,
                 robots[k].path[robots[k].current_path_index + 2])

\* Robot j holds the next lane of robot k.
Blocks(j, k) ==
    /\ HasNextVertex(k)
    /\ NextLanes(k) # {}
    /\ \A l \in NextLanes(k) : lanes[l].occupying_robot = robots[j].id

\* Two robots, each holding the other's next lane, one of them waiting.
MutualBlock ==
    /\ Len(robots) = 2
    /\ Blocks(1, 2)
    /\ Blocks(2, 1)
    /\ \E k \in DOMAIN robots : robots[k].state = WAITING

-----------------------------------------------------------------------------
(* A larger fleet on a ring: three robots, three tasks.                    *)

\* The ring V0 -> V1 -> V2 -> V0, no chargers.
RingDoc ==
    [vertices |-> <<Vtx(0, FALSE), Vtx(1, FALSE), Vtx(2, FALSE)>>,
     lanes    |-> << <<0, 1>>, <<1, 2>>, <<2, 0>> >>]

CrowdRobots == 3

CrowdTasks == 3

\* Every task of the crowd sends its robot to V0.
CrowdDestinations == {0}

InitCrowd ==
    /\ vertices = LoadVertices(RingDoc)
    /\ lanes = LoadLanes(RingDoc)
    /\ robots = <<>>
    /\ next_robot_id = 0
    /\ selected_robot = None
    /\ pc = "events"
    /\ cursor = 0
    /\ assigned = 0
    /\ event_log = <<>>

NextCrowd ==
    \/ \E vertex_id \in VertexIds(nav_graph) : SpawnRobotWithin(vertex_id, CrowdRobots)
    \/ \E point \in Clicks(nav_graph) : SelectRobot(point)
    \/ \E destination_vertex \in CrowdDestinations :
           AssignNavigationTaskWithin(destination_vertex, CrowdTasks)
    \/ StartTick
    \/ UpdateRobot
    \/ TrafficUpdate

SpecCrowd == InitCrowd /\ [][NextCrowd]_vars

\* The tick before this one ended with resolve_deadlocks clearing a lane:
\* its log entry opens the log.
ResolvedBefore ==
    /\ pc = "update"
    /\ event_log # <<>>
    /\ event_log[1][1] = "traffic_manager"

\* The robot the previous tick's resolution prioritized.
Prioritized == RobotIndex(robots, event_log[1][2])

\* C16: when resolve_deadlocks has cleared a lane at the end of a tick,
\* the update of the prioritized robot in the next tick reserves its next
\* lane and takes it from waiting to moving, and no other waiting robot
\* leaves along that lane in that tick.
C16_PrioritizedUnblocked ==
    [][(IsUpdateStep /\ ResolvedBefore) =>
          /\ cursor = Prioritized =>
                /\ robots[cursor].state = WAITING
                /\ robots'[cursor].state = MOVING
                /\ \E l \in LanesBetween(LaneOf(robots[cursor])[1],
                                         LaneOf(robots[cursor])[2]) :
                       lanes'[l].occupying_robot = robots[cursor].id
          /\ (cursor # Prioritized /\ robots[cursor].state = WAITING
                  /\ robots'[cursor].state = MOVING) =>
                LaneOf(robots'[cursor]) # LaneOf(robots[Prioritized])]_vars

-----------------------------------------------------------------------------
(* Two lanes into one vertex: V0 -> V1 <- V2, and V1 -> V2.                *)

MergeDoc ==
    [vertices |-> <<Vtx(0, FALSE), Vtx(1, FALSE), Vtx(2, FALSE)>>,
     lanes    |-> << <<0, 1>>, <<2, 1>>, <<1, 2>> >>]

InitMerge ==
    /\ vertices = LoadVertices(MergeDoc)
    /\ lanes = LoadLanes(MergeDoc)
    /\ robots = <<>>
    /\ next_robot_id = 0
    /\ selected_robot = None
    /\ pc = "events"
    /\ cursor = 0
    /\ assigned = 0
    /\ event_log = <<>>

SpecMerge == InitMerge /\ [][Next]_vars

\* The update of robot j in the tick under way logged an event of one of
\* the kinds.
LoggedThisTick(j, kinds) ==
    \E i \in DOMAIN event_log :
        /\ event_log[i][1] = "robot"
        /\ event_log[i][2] = robots[j].id
        /\ event_log[i][4][1] \in kinds

DepartedThisTick(j) == LoggedThisTick(j, {"moving_to"})

ArrivedThisTick(j) == LoggedThisTick(j, {"arrived_at", "reached_destination"})

\* The update of robot k will call reserve_lane for its next lane.
AttemptsLane(k) ==
    /\ HasNextVertex(k)
    /\ \/ robots[k].state \in {WAITING, CHARGING}
       \/ robots[k].state = IDLE /\ ~vertices[robots[k].current_vertex].is_charger

\* C17: within a tick the robots are updated in registration order: the
\* robots updated so far are the ones registered before the robot updated
\* now.  When that robot tries for a lane that a robot registered before
\* it has reserved in this tick, the lane stays the earlier robot's and
\* the later robot waits; a first attempt at a free lane is granted.
\* When it arrives at a vertex that a robot registered before it has
\* arrived at and reserved in this tick, the vertex stays the earlier
\* robot's; the first arrival at a free vertex is recorded as occupant.
C17_FirstRegisteredWins ==
    [][IsUpdateStep =>
          LET k == cursor
              V == robots'[k].current_vertex
          IN  /\ \A j \in DOMAIN robots :
                     (\E i \in DOMAIN event_log :
                          event_log[i][1] = "robot" /\ event_log[i][2] = robots[j].id)
                         => j < k
              /\ \A i \in DOMAIN event_log' :
                     (i > Len(event_log)) => event_log'[i][2] = robots[k].id
              /\ AttemptsLane(k) =>
                    /\ \A j \in DOMAIN robots :
                           (j < k /\ DepartedThisTick(j) /\ robots[j].state = MOVING
                                  /\ LaneOf(robots[j]) = LaneOf(robots[k])) =>
                               /\ \A l \in NextLanes(k) :
                                      lanes'[l].occupying_robot = robots[j].id
                               /\ robots'[k].state = WAITING
                    /\ (\A l \in NextLanes(k) : lanes[l].occupying_robot = None) =>
                           /\ \A l \in NextLanes(k) :
                                  lanes'[l].occupying_robot = robots[k].id
                           /\ robots'[k].state = MOVING
              /\ (robots[k].state = MOVING /\ robots'[k].state # MOVING) =>
                    /\ \A j \in DOMAIN robots :
                           (j < k /\ ArrivedThisTick(j) /\ robots[j].current_vertex = V
                                  /\ vertices[V].occupying_robot = robots[j].id) =>
                               vertices'[V].occupying_robot = robots[j].id
                    /\ vertices[V].occupying_robot = None =>
                           vertices'[V].occupying_robot = robots[k].id
                    /\ vertices[V].occupying_robot # None =>
                           vertices'[V] = vertices[V]]_vars

\* C17's case for vertices: both robots have arrived at one vertex in the
\* tick under way, and the vertex is the first-registered robot's.
C17_Witness ==
    /\ pc = "update"
    /\ Len(robots) = 2
    /\ ArrivedThisTick(1)
    /\ ArrivedThisTick(2)
    /\ robots[1].current_vertex = robots[2].current_vertex
    /\ vertices[robots[1].current_vertex].occupying_robot = robots[1].id

\* C17's case for lanes: both robots have tried for one lane in the tick
\* under way; the first-registered robot moves along it, the other waits.
C17_LaneRace ==
    /\ pc = "update"
    /\ Len(robots) = 2
    /\ DepartedThisTick(1)
    /\ LoggedThisTick(2, {"waiting_for_lane_to"})
    /\ robots[1].current_vertex = robots[2].current_vertex
    /\ LaneOf(robots[1]) = LaneOf(robots[2])
    /\ \A l \in NextLanes(2) : lanes[l].occupying_robot = robots[1].id

-----------------------------------------------------------------------------
(* The order of a tick.                                                    *)

\* C18: a tick starts at the first robot of the registry; each step of it
\* updates the robot at the cursor and no other and moves the cursor to
\* the next robot, so every registered robot is updated exactly once; a
\* robot's update changes no lane held by another robot; when the cursor
\* has passed the last robot resolve_deadlocks runs, once, changes no
\* robot, and the tick is over.  The registry does not change in a tick.
C18_TickOrder ==
    [][/\ (pc = "events" /\ pc' = "update") => (cursor' = 1 /\ robots' = robots)
       /\ pc = "events" => pc' \in {"events", "update"}
       /\ pc = "update" =>
             /\ Len(robots') = Len(robots)
             /\ cursor \in 1 .. (Len(robots) + 1)
             /\ IF cursor <= Len(robots)
                THEN /\ pc' = "update"
                     /\ cursor' = cursor + 1
                     /\ \A j \in DOMAIN robots : j # cursor => robots'[j] = robots[j]
                     /\ robots'[cursor].id = robots[cursor].id
                     /\ \A l \in DOMAIN lanes :
                            lanes[l].occupying_robot \notin {None, robots[cursor].id}
                                => lanes'[l] = lanes[l]
                ELSE /\ pc' = "events"
                     /\ robots' = robots
                     /\ lanes' = resolve_deadlocks(robots, nav_graph).ng.lanes]_vars

\* C18's case: in the middle of a tick the first robot has been updated
\* and waits for a lane that the second robot, not yet updated, moves
\* along; the reservation stands until resolve_deadlocks runs.
C18_Witness ==
    /\ pc = "update"
    /\ Len(robots) = 2
    /\ cursor = 2
    /\ robots[1].state = WAITING
    /\ robots[2].state = MOVING
    /\ Blocks(2, 1)

-----------------------------------------------------------------------------
(* Shortest paths on every graph over three vertices: any set of lanes,    *)
(* each lane as loaded, or occupied and with a speed limit, or blocked;    *)
(* a client then reserves and releases lanes.                              *)

\* The ordered pairs of different vertices, in the order the lanes are listed.
AllPairs == << <<0, 1>>, <<0, 2>>, <<1, 0>>, <<1, 2>>, <<2, 0>>, <<2, 1>> >>

LaneKinds == {"absent", "plain", "occupied", "blocked"}

\* The lane record of a pair, for a kind other than absent.
LaneOfKind(pair, kind) ==
    [from_vertex |-> pair[1],
     to_vertex |-> pair[2],
     speed_limit |-> IF kind = "occupied" THEN 5 ELSE 0,
     occupying_robot |-> IF kind = "occupied" THEN 0 ELSE None,
     is_blocked |-> kind = "blocked"]

InitPaths ==
    /\ vertices = LoadVertices(LineDoc)
    /\ \E kind \in [DOMAIN AllPairs -> LaneKinds] :
           LET present == SelectSeq([i \in DOMAIN AllPairs |-> i],
                                    LAMBDA i : kind[i] # "absent")
           IN  lanes = [k \in DOMAIN present |->
                           LaneOfKind(AllPairs[present[k]], kind[present[k]])]
    /\ robots = <<>>
    /\ next_robot_id = 0
    /\ selected_robot = None
    /\ pc = "store"
    /\ cursor = 0
    /\ assigned = 0
    /\ event_log = <<>>

NextPaths ==
    \/ \E f \in VertexIds(nav_graph), t \in VertexIds(nav_graph) : ReserveLane(f, t, 0)
    \/ \E f \in VertexIds(nav_graph), t \in VertexIds(nav_graph) : ReleaseLane(f, t, 0)

SpecPaths == InitPaths /\ [][NextPaths]_vars

\* The graph with every lane free, unblocked and without a speed limit.
BareGraph ==
    NavGraph(vertices,
             [k \in DOMAIN lanes |->
                 [lanes[k] EXCEPT !.speed_limit = 0,
                                  !.occupying_robot = None,
                                  !.is_blocked = FALSE]])

\* C19: for all vertices s and e, every result of get_shortest_path(s, e)
\* is a walk of the graph from s to e no longer than any other such
\* walk, the only result is <<s>> when s = e, there is a result exactly
\* when some walk leads from s to e, and the results are the same as on
\* the graph with every lane free, unblocked and without a speed limit.
C19_ShortestPath ==
    \A s \in DOMAIN vertices, e \in DOMAIN vertices :
        LET paths == get_shortest_path(nav_graph, s, e)
            walks == WalksBetween(s, e)
        IN  /\ paths \subseteq walks
            /\ \A p \in paths : \A q \in walks : Len(p) <= Len(q)
            /\ s = e => paths = {<<s>>}
            /\ paths = {} <=> walks = {}
            /\ paths = get_shortest_path(BareGraph, s, e)

\* C19's case: V2 is reached from V0 only by the two-hop path through V1,
\* V0 is not reached from V2, and every lane is occupied or blocked, one
\* of them by a reservation made since the graph was loaded.
C19_Witness ==
    /\ pc = "store"
    /\ get_shortest_path(nav_graph, 0, 2) = {<<0, 1, 2>>}
    /\ get_shortest_path(nav_graph, 2, 0) = {}
    /\ \A k \in DOMAIN lanes :
           lanes[k].occupying_robot # None \/ lanes[k].is_blocked
    /\ \E k \in DOMAIN lanes : lanes[k].is_blocked
    /\ \E k \in DOMAIN lanes : lanes[k].speed_limit # 0
    /\ \E k \in DOMAIN lanes :
           lanes[k].occupying_robot = 0 /\ lanes[k].speed_limit = 0

-----------------------------------------------------------------------------
(* select_robot, asked about points near the robots in every state of the *)
(* fleet.  The robots are on the row y = 100 between x = 196 and x = 203. *)

\* Points of the screen: 20 pixels left of V0, between V0 and V1, on V1,
\* 20 pixels from V1 off the row, 20 pixels right of V2, and a far corner.
SelectPoints ==
    {<<176, 100>>, <<198, 100>>, <<200, 100>>, <<212, 116>>, <<223, 100>>, <<0, 0>>}

\* The robots whose squared distance to the point is below the limit.
RobotsCloserThan(point, limit2) ==
    {k \in DOMAIN robots : Distance2(robots[k], point[1], point[2]) < limit2}

\* select_robot returns the nearest of the candidates, the first in
\* registry order among the nearest, and None when there is no candidate.
SelectsNearestOf(point, candidates) ==
    LET selected == select_robot(fleet_manager, point[1], point[2], tolerance).ret
    IN  IF candidates = {} THEN selected = None
        ELSE \E k \in candidates :
                /\ selected = robots[k].id
                /\ \A j \in candidates :
                       /\ Distance2(robots[k], point[1], point[2])
                              <= Distance2(robots[j], point[1], point[2])
                       /\ Distance2(robots[k], point[1], point[2])
                              = Distance2(robots[j], point[1], point[2]) => k <= j

\* C20 as stated: select_robot returns the nearest robot among those at a
\* distance of at most tolerance from the point, the first in registry
\* order among equally near ones, and None when there is none.
C20_SelectInclusive ==
    \A point \in SelectPoints :
        SelectsNearestOf(point, RobotsCloserThan(point, tolerance * tolerance + 1))

\* C20: select_robot returns the nearest robot among those at a distance
\* below tolerance from the point, the first in registry order among
\* equally near ones, and None when there is none; a robot at exactly
\* tolerance from the point is not selected.
C20_SelectStrict ==
    \A point \in SelectPoints :
        /\ SelectsNearestOf(point, RobotsCloserThan(point, tolerance * tolerance))
        /\ \A k \in DOMAIN robots :
               Distance2(robots[k], point[1], point[2]) = tolerance * tolerance =>
                   select_robot(fleet_manager, point[1], point[2], tolerance).ret
                       # robots[k].id

\* C20's case: one robot stands on V0 and a later one on V1; a click
\* between them is equally near to both and selects the first, and a
\* click exactly 20 pixels left of V0 selects none; the second robot has
\* been selected by a click.
C20_Witness ==
    /\ Len(robots) = 2
    /\ robots[1].position = <<196, 100>>
    /\ robots[2].position = <<200, 100>>
    /\ selected_robot = robots[2].id
    /\ select_robot(fleet_manager, 198, 100, tolerance).ret = robots[1].id
    /\ select_robot(fleet_manager, 176, 100, tolerance).ret = None

-----------------------------------------------------------------------------
(* FleetManager.assign_navigation_task and the selected robot.             *)

\* C21: whenever input events are handled, assign_navigation_task(d) with
\* no robot selected returns False and leaves manager and graph as they
\* were; with a robot selected each of its outcomes is an outcome of that
\* robot's assign_task(d): False with manager and graph unchanged when
\* the robot refuses, True with the robot replaced by the one assign_task
\* leaves and every other robot, the selection, the id counter and the
\* graph unchanged when it accepts.  A step that assigns a task changes
\* the registry in just that way.
C21_AssignDelegates ==
    [][pc = "events" =>
          /\ \A d \in DOMAIN vertices :
                LET outs == assign_navigation_task(fleet_manager, nav_graph, d)
                    refused == [ret |-> FALSE, fm |-> fleet_manager, ng |-> nav_graph]
                IN  IF selected_robot = None
                    THEN outs = {refused}
                    ELSE LET k == RobotIndex(robots, selected_robot)
                             tasks == assign_task(robots[k], nav_graph, d)
                         IN  /\ \A out \in outs :
                                    IF out.ret
                                    THEN \E t \in tasks :
                                            /\ t.ret
                                            /\ out.fm = [fleet_manager EXCEPT
                                                            !.robots[k] = t.robot]
                                            /\ out.ng = t.ng
                                    ELSE out = refused /\ \A t \in tasks : ~t.ret
                             /\ \A t \in tasks : \E out \in outs : out.ret = t.ret
          /\ assigned' # assigned =>
                /\ selected_robot # None
                /\ \E d \in DOMAIN vertices :
                       \E t \in assign_task(robots[RobotIndex(robots, selected_robot)],
                                            nav_graph, d) :
                           /\ t.ret
                           /\ robots' = [robots EXCEPT
                                            ![RobotIndex(robots, selected_robot)] = t.robot]
                /\ vertices' = vertices
                /\ lanes' = lanes
                /\ selected_robot' = selected_robot
                /\ next_robot_id' = next_robot_id]_vars

\* C21's case: between ticks the second robot is selected and has been
\* given a path by an assignment, the first robot has none; the second
\* robot can be given a task again and refuses another.
C21_Witness ==
    /\ pc = "events"
    /\ Len(robots) = 2
    /\ selected_robot = robots[2].id
    /\ assigned = 1
    /\ robots[2].path # <<>>
    /\ robots[1].path = <<>>
    /\ \E d \in DOMAIN vertices :
           \E out \in assign_navigation_task(fleet_manager, nav_graph, d) : out.ret
    /\ \E d \in DOMAIN vertices :
           \E out \in assign_navigation_task(fleet_manager, nav_graph, d) : ~out.ret

-----------------------------------------------------------------------------
(* TrafficManager.check_path_conflicts, asked about every walk of the      *)
(* graph for every registered robot, in every state of the fleet.          *)

\* The walks of the graph with at most as many vertices as the graph has.
AllWalks == UNION {WalksFrom(a, Cardinality(DOMAIN vertices)) : a \in DOMAIN vertices}

\* C22: check_path_conflicts(a, path) flags a vertex only if it is the
\* end of a path segment whose lane, or whose end vertex itself, is
\* occupied by a robot other than a; nothing occupied by a itself is
\* flagged; the call leaves the graph as it was.
C22_ConflictsOnlyOthers ==
    \A k \in DOMAIN robots, path \in AllWalks :
        LET a == robots[k].id
            out == check_path_conflicts(nav_graph, a, path)
        IN  /\ out.ng = nav_graph
            /\ \A i \in DOMAIN out.ret :
                   \E n \in 1 .. (Len(path) - 1) :
                       /\ path[n + 1] = out.ret[i]
                       /\ \/ \E l \in LanesBetween(path[n], path[n + 1]) :
                                 lanes[l].occupying_robot \notin {None, a}
                          \/ vertices[path[n + 1]].occupying_robot \notin {None, a}

-----------------------------------------------------------------------------
(* Robot.update, step by step.                                             *)

\* C23: the update of a robot gives the same robot, the same graph and
\* the same event for every value of delta_time, so the state after each
\* update, and with it after each tick, is the same whatever delta_time
\* values a run passes.
C23_DeltaTimeIgnored ==
    [][IsUpdateStep =>
          \A delta_time \in DeltaTimes :
              LET out == update(robots[cursor], nav_graph, delta_time)
              IN  /\ robots' = [robots EXCEPT ![cursor] = out.robot]
                  /\ vertices' = out.ng.vertices
                  /\ lanes' = out.ng.lanes
                  /\ \A other \in DeltaTimes :
                         update(robots[cursor], nav_graph, other) = out]_vars

\* C23's case: in the middle of a tick the robot just updated is moving
\* and stands between two vertices.
C23_Witness ==
    /\ pc = "update"
    /\ cursor = 2
    /\ robots[1].state = MOVING
    /\ robots[1].position # get_scaled_position(nav_graph, robots[1].current_vertex)
    /\ robots[1].position # robots[1].target_position

\* C24: no step of the fleet adds or removes a vertex or a lane or
\* changes any field of one other than occupying_robot: coordinates,
\* is_charger, lane ends, speed_limit and is_blocked stay as loaded.
C24_OnlyOccupancyChanges ==
    [][/\ DOMAIN vertices' = DOMAIN vertices
       /\ DOMAIN lanes' = DOMAIN lanes
       /\ \A v \in DOMAIN vertices :
              vertices'[v] = [vertices[v] EXCEPT
                                 !.occupying_robot = vertices'[v].occupying_robot]
       /\ \A l \in DOMAIN lanes :
              lanes'[l] = [lanes[l] EXCEPT
                              !.occupying_robot = lanes'[l].occupying_robot]]_vars

\* C24's case: robots have been spawned, selected and given tasks, ticks
\* have run and resolve_deadlocks has just cleared a lane: a vertex is
\* occupied, a robot is moving and no lane is recorded as occupied.
C24_Witness ==
    /\ pc = "events"
    /\ assigned = MaxTasks
    /\ event_log # <<>>
    /\ \E v \in DOMAIN vertices : vertices[v].occupying_robot # None
    /\ \E k \in DOMAIN robots : robots[k].state = MOVING
    /\ \A l \in DOMAIN lanes : lanes[l].occupying_robot = None
    /\ \A l \in DOMAIN lanes : ~lanes[l].is_blocked

\* The vertex a robot stands on is a charger.
OnCharger(robot) == vertices[robot.current_vertex].is_charger

\* C25: the update of an idle robot on a charger vertex makes it charging
\* and changes nothing else of the robot and nothing of the graph; the
\* update of a charging robot with a next path vertex leaves it moving or
\* waiting; a robot becomes charging only from idle, so a completed robot
\* does not; and a completed robot stops being completed only in a step
\* that assigns a task, which leaves it idle.
C25_ChargingOneTick ==
    [][/\ IsUpdateStep =>
             LET robot == robots[cursor]
             IN  /\ (robot.state = IDLE /\ OnCharger(robot)) =>
                        /\ robots'[cursor] = [robot EXCEPT !.state = CHARGING]
                        /\ vertices' = vertices
                        /\ lanes' = lanes
                 /\ (robot.state = CHARGING /\ HasNextVertex(cursor)) =>
                        robots'[cursor].state \in {MOVING, WAITING}
                 /\ (robot.state # CHARGING /\ robots'[cursor].state = CHARGING) =>
                        (robot.state = IDLE /\ OnCharger(robot))
       /\ \A k \in DOMAIN robots :
              (robots[k].state = COMPLETED /\ robots'[k].state # COMPLETED) =>
                  /\ assigned' = assigned + 1
                  /\ robots'[k].state = IDLE]_vars

\* C25's case: in the middle of a tick the robot just updated is charging
\* on a charger vertex in the middle of its path, where it arrived idle.
C25_Witness ==
    /\ pc = "update"
    /\ cursor = 2
    /\ robots[1].state = CHARGING
    /\ OnCharger(robots[1])
    /\ robots[1].current_path_index = 1
    /\ HasNextVertex(1)

\* A completed robot stands on a charger vertex between ticks.
C25_CompletedOnCharger ==
    /\ pc = "events"
    /\ \E k \in DOMAIN robots : robots[k].state = COMPLETED /\ OnCharger(robots[k])

\* The next lane of robot k is there, free and not blocked.
NextLaneFree(k) ==
    \E l \in NextLanes(k) : lanes[l].occupying_robot = None /\ ~lanes[l].is_blocked

Remaining2(robot) ==
    (robot.target_position[1] - robot.position[1])
        * (robot.target_position[1] - robot.position[1])
    + (robot.target_position[2] - robot.position[2])
        * (robot.target_position[2] - robot.position[2])

\* C27: the update of a moving robot whose distance to its target is
\* below the step length adds one to the path index, frees the lane just
\* traversed if it is recorded as the robot's, makes the robot occupant
\* of the vertex arrived at if that vertex is free and leaves the vertex
\* alone if not, sets current_vertex to that vertex either way, and
\* leaves the robot completed if the vertex ends the path and idle if
\* not.  With the distance not below the step length the robot stays
\* moving and vertices, lanes, path index and current vertex are as they
\* were.
C27_Arrival ==
    [][(IsUpdateStep /\ robots[cursor].state = MOVING) =>
          LET robot == robots[cursor]
              index == robot.current_path_index + 1
              prev_vertex == robot.path[index]
              next_vertex == robot.path[index + 1]
          IN  IF Remaining2(robot) < move_speed * move_speed
              THEN /\ robots'[cursor] =
                          [robot EXCEPT
                              !.current_path_index = index,
                              !.current_vertex = next_vertex,
                              !.position = robot.target_position,
                              !.state = IF index = Len(robot.path) - 1
                                        THEN COMPLETED ELSE IDLE]
                   /\ \A l \in DOMAIN lanes :
                          lanes'[l] =
                              IF l \in LanesBetween(prev_vertex, next_vertex)
                                 /\ lanes[l].occupying_robot = robot.id
                              THEN [lanes[l] EXCEPT !.occupying_robot = None]
                              ELSE lanes[l]
                   /\ \A v \in DOMAIN vertices :
                          vertices'[v] =
                              IF v = next_vertex /\ vertices[v].occupying_robot = None
                              THEN [vertices[v] EXCEPT !.occupying_robot = robot.id]
                              ELSE vertices[v]
              ELSE /\ robots'[cursor].state = MOVING
                   /\ robots'[cursor].current_path_index = robot.current_path_index
                   /\ robots'[cursor].current_vertex = robot.current_vertex
                   /\ robots'[cursor].path = robot.path
                   /\ vertices' = vertices
                   /\ lanes' = lanes]_vars

\* C27's case: in the middle of a tick the first robot has just arrived
\* at a vertex in the middle of its path that another robot occupies; it
\* is idle there and the vertex is still the other robot's.
C27_Witness ==
    /\ pc = "update"
    /\ cursor = 2
    /\ Len(robots) = 2
    /\ ArrivedThisTick(1)
    /\ robots[1].state = IDLE
    /\ robots[1].current_path_index = 1
    /\ vertices[robots[1].current_vertex].occupying_robot = robots[2].id

\* C28: the update of a completed robot, and of an idle robot without a
\* next path vertex on a vertex without charger, changes no robot, no
\* vertex and no lane and reports no event; a robot stops being
\* completed only between ticks, in a step that assigns a task to it as
\* the selected robot.
C28_NothingToDo ==
    [][/\ (/\ IsUpdateStep
           /\ \/ robots[cursor].state = COMPLETED
              \/ /\ robots[cursor].state = IDLE
                 /\ ~OnCharger(robots[cursor])
                 /\ ~HasNextVertex(cursor)) =>
              /\ robots' = robots
              /\ vertices' = vertices
              /\ lanes' = lanes
              /\ event_log' = event_log
              /\ \A delta_time \in DeltaTimes :
                     update(robots[cursor], nav_graph, delta_time).event = NoEvent
       /\ \A k \in DOMAIN robots :
              (robots[k].state = COMPLETED /\ robots'[k] # robots[k]) =>
                  /\ pc = "events"
                  /\ selected_robot = robots[k].id
                  /\ assigned' = assigned + 1
                  /\ \E d \in DOMAIN vertices :
                         \E t \in assign_task(robots[k], nav_graph, d) :
                             t.ret /\ robots'[k] = t.robot]_vars

\* C28's case: in the middle of a tick the first robot, completed, has
\* just been updated, and the second, idle without a path on a vertex
\* without charger, is about to be; no event is logged.
C28_Witness ==
    /\ pc = "update"
    /\ cursor = 2
    /\ Len(robots) = 2
    /\ robots[1].state = COMPLETED
    /\ robots[2].state = IDLE
    /\ robots[2].path = <<>>
    /\ ~OnCharger(robots[2])
    /\ event_log = <<>>

-----------------------------------------------------------------------------
(* The fleet on the line graph with lanes blocked by hand: is_blocked is   *)
(* a field of the lane record that reserve_lane reads and that a traffic   *)
(* operator may set before the fleet runs.                                 *)

InitBlocked ==
    /\ vertices = LoadVertices(LineDoc)
    /\ \E blocked \in [DOMAIN LoadLanes(LineDoc) -> BOOLEAN] :
           lanes = [k \in DOMAIN LoadLanes(LineDoc) |->
                       [LoadLanes(LineDoc)[k] EXCEPT !.is_blocked = blocked[k]]]
    /\ robots = <<>>
    /\ next_robot_id = 0
    /\ selected_robot = None
    /\ pc = "events"
    /\ cursor = 0
    /\ assigned = 0
    /\ event_log = <<>>

SpecBlocked == InitBlocked /\ [][Next]_vars

C29_WaitsForBlockedLane ==
    \E k \in DOMAIN robots :
        /\ robots[k].state = WAITING
        /\ HasNextVertex(k)
        /\ \A l \in NextLanes(k) : lanes[l].is_blocked /\ lanes[l].occupying_robot = None
        /\ vertices[robots[k].path[robots[k].current_path_index + 2]].occupying_robot = None

-----------------------------------------------------------------------------
(* The runs in which resolve_deadlocks never clears a lane: the fleet      *)
(* with the ticks that end in a call returning 0.                          *)

\* TrafficManager.update with nothing to resolve.
TrafficUpdateQuiet ==
    /\ resolve_deadlocks(robots, nav_graph).ret = 0
    /\ TrafficUpdate

NextQuiet ==
    \/ \E vertex_id \in VertexIds(nav_graph) : SpawnRobot(vertex_id)
    \/ \E point \in Clicks(nav_graph) : SelectRobot(point)
    \/ \E destination_vertex \in VertexIds(nav_graph) :
           AssignNavigationTask(destination_vertex)
    \/ StartTick
    \/ UpdateRobot
    \/ TrafficUpdateQuiet

SpecQuiet == Init /\ [][NextQuiet]_vars

\* C30: as long as resolve_deadlocks has cleared no lane, every moving
\* robot is the recorded occupant of the lane from its current vertex to
\* its next path vertex, and no two robots are moving along the same lane.
C30_MovingHoldsLane ==
    /\ \A k \in DOMAIN robots :
           robots[k].state = MOVING =>
               /\ HasNextVertex(k)
               /\ LaneOf(robots[k])[1] = robots[k].current_vertex
               /\ NextLanes(k) # {}
               /\ \A l \in NextLanes(k) : lanes[l].occupying_robot = robots[k].id
    /\ ~SharedLane

\* C30's case: two robots are moving at the same time, each along its own
\* lane, after ticks in which nothing was resolved.
C30_Witness ==
    /\ pc = "events"
    /\ Len(robots) = 2
    /\ robots[1].state = MOVING
    /\ robots[2].state = MOVING
    /\ LaneOf(robots[1]) # LaneOf(robots[2])
    /\ robots[1].position # get_scaled_position(nav_graph, robots[1].current_vertex)

-----------------------------------------------------------------------------
(* What the store records against where the robots are.                    *)

\* The ids of the registered robots.
RegisteredIds == {robots[k].id : k \in DOMAIN robots}

\* C31: the store holds no stale vertex reservation: the robot a vertex
\* records as its occupant is registered, has that vertex as its
\* current_vertex and is not moving.
C31_NoStaleVertex ==
    \A v \in DOMAIN vertices :
        vertices[v].occupying_robot # None =>
            /\ vertices[v].occupying_robot \in RegisteredIds
            /\ LET robot == robots[RobotIndex(robots, vertices[v].occupying_robot)]
               IN  /\ robot.current_vertex = v
                   /\ robot.state # MOVING

\* C31's case: a robot has left its vertex and is on its way along the
\* lane, and a second robot, spawned on the vertex the first one left, is
\* recorded there and waits for that lane.
C31_Witness ==
    /\ Len(robots) = 2
    /\ robots[1].state = MOVING
    /\ robots[1].position # get_scaled_position(nav_graph, robots[1].current_vertex)
    /\ robots[2].current_vertex = robots[1].current_vertex
    /\ vertices[robots[1].current_vertex].occupying_robot = robots[2].id
    /\ robots[2].state = WAITING

\* C32: the store holds no stale lane reservation, deadlock overrides
\* included: the robot a lane records as its occupant is moving, the
\* lane's from-vertex is the robot's current_vertex and its
\* path[current_path_index], and the lane's to-vertex is its
\* path[current_path_index + 1].
C32_NoStaleLane ==
    \A l \in DOMAIN lanes :
        lanes[l].occupying_robot # None =>
            /\ lanes[l].occupying_robot \in RegisteredIds
            /\ LET k == RobotIndex(robots, lanes[l].occupying_robot)
               IN  /\ robots[k].state = MOVING
                   /\ HasNextVertex(k)
                   /\ lanes[l].from_vertex = robots[k].current_vertex
                   /\ lanes[l].from_vertex = LaneOf(robots[k])[1]
                   /\ lanes[l].to_vertex = LaneOf(robots[k])[2]

\* C32's case: after a deadlock override two robots are moving along the
\* same lane; the lane is recorded to the second, which took it after the
\* first one's reservation was cleared.
C32_Witness ==
    /\ Len(robots) = 2
    /\ robots[1].state = MOVING
    /\ robots[2].state = MOVING
    /\ LaneOf(robots[1]) = LaneOf(robots[2])
    /\ \E l \in NextLanes(1) : lanes[l].occupying_robot = robots[2].id

\* The vertices and the lanes the store records to robot_id.
VerticesOf(robot_id) == {v \in DOMAIN vertices : vertices[v].occupying_robot = robot_id}

LanesOf(robot_id) == {l \in DOMAIN lanes : lanes[l].occupying_robot = robot_id}

\* C33: every robot is recorded as the occupant of at most one resource
\* in all: one vertex, or one lane, or nothing, and never a vertex and a
\* lane at the same time.
C33_OneResource ==
    \A robot_id \in RegisteredIds :
        Cardinality(VerticesOf(robot_id)) + Cardinality(LanesOf(robot_id)) <= 1

\* C33's case: a robot that has left its vertex holds its lane and nothing
\* else, the vertex it left being free, and a robot that has completed its
\* path holds the vertex it arrived at and nothing else.
C33_Witness ==
    /\ Len(robots) = 2
    /\ robots[1].state = MOVING
    /\ LanesOf(robots[1].id) # {}
    /\ vertices[robots[1].current_vertex].occupying_robot = None
    /\ robots[2].state = COMPLETED
    /\ VerticesOf(robots[2].id) = {robots[2].current_vertex}

\* C34: for every robot with a non-empty path, current_path_index is an
\* index of the path and current_vertex is the path's vertex at that
\* index; a moving or waiting robot is not at the path's final index; a
\* completed robot is at the final index and its current_vertex is its
\* target vertex.
C34_PathIndex ==
    \A k \in DOMAIN robots :
        LET robot == robots[k]
        IN  robot.path # <<>> =>
                /\ 0 <= robot.current_path_index
                /\ robot.current_path_index <= Len(robot.path) - 1
                /\ robot.current_vertex = robot.path[robot.current_path_index + 1]
                /\ robot.state \in {MOVING, WAITING} =>
                       robot.current_path_index < Len(robot.path) - 1
                /\ robot.state = COMPLETED =>
                       /\ robot.current_path_index = Len(robot.path) - 1
                       /\ robot.current_vertex = robot.target_vertex

\* C34's case: a robot is moving along the second lane of a path of three
\* vertices, and a second robot waits at the first index of its own path.
C34_Witness ==
    /\ Len(robots) = 2
    /\ robots[1].state = MOVING
    /\ Len(robots[1].path) = 3
    /\ robots[1].current_path_index = 1
    /\ robots[2].state = WAITING
    /\ robots[2].current_path_index = 0

-----------------------------------------------------------------------------
(* A fleet of one robot under the main loop, which runs a tick in every    *)
(* frame: no other robot is there to interfere with the one registered.    *)

NextAlone ==
    \/ \E vertex_id \in VertexIds(nav_graph) : SpawnRobotWithin(vertex_id, 1)
    \/ \E point \in Clicks(nav_graph) : SelectRobot(point)
    \/ \E destination_vertex \in VertexIds(nav_graph) :
           AssignNavigationTask(destination_vertex)
    \/ StartTick
    \/ UpdateRobot
    \/ TrafficUpdate

\* The loop of main never stops ticking: each step of a tick that can be
\* taken is taken.
TickFairness ==
    /\ WF_vars(StartTick)
    /\ WF_vars(UpdateRobot)
    /\ WF_vars(TrafficUpdate)

SpecAlone == Init /\ [][NextAlone]_vars /\ TickFairness

\* assign_task does not refuse the robot for its state.
AcceptsTask(robot) == robot.state \in {IDLE, COMPLETED}

\* C35: a registered robot that no other robot interferes with reaches,
\* from every state and after finitely many ticks, a state in which
\* assign_task is accepted (idle or completed); a robot charging with no
\* pending path does not stay charging forever.
C35_Retaskable ==
    [](robots # <<>> => <>(robots # <<>> /\ AcceptsTask(robots[1])))

\* The robot is charging with nothing left of a path: no update changes
\* it and every task is refused.
C35_ChargingForever ==
    /\ Len(robots) = 1
    /\ robots[1].state = CHARGING
    /\ ~HasNextVertex(1)

\* The robot with this id is moving along lane l.
MovingAlong(robot_id, l) ==
    /\ robot_id \in RegisteredIds
    /\ LET k == RobotIndex(robots, robot_id)
       IN  /\ robots[k].state = MOVING
           /\ HasNextVertex(k)
           /\ l \in NextLanes(k)

\* A waiting robot holds nothing, and whoever holds its next lane is
\* moving along that lane.
WaitingBehindMoving ==
    \A k \in DOMAIN robots :
        robots[k].state = WAITING =>
            /\ LanesOf(robots[k].id) = {}
            /\ HasNextVertex(k)
            /\ \A l \in NextLanes(k) :
                   lanes[l].occupying_robot # None =>
                       MovingAlong(lanes[l].occupying_robot, l)

\* Two waiting robots, each holding the other's next lane.
WaitingCycle ==
    \E j \in DOMAIN robots, k \in DOMAIN robots :
        /\ j # k
        /\ robots[j].state = WAITING
        /\ robots[k].state = WAITING
        /\ Blocks(j, k)
        /\ Blocks(k, j)

\* C36: a waiting robot is never recorded as the occupant of a lane; the
\* lane a robot is refused, and waits for, is held by another robot that
\* is moving along it, and so is its next lane whenever that is occupied;
\* no two waiting robots hold each other's next lane; every lane that
\* resolve_deadlocks clears was recorded to a robot moving along it.
C36_WaitingBehindMoving ==
    [][/\ WaitingBehindMoving'
       /\ ~WaitingCycle'
       /\ (IsUpdateStep /\ AttemptsLane(cursor) /\ robots'[cursor].state = WAITING) =>
              /\ NextLanes(cursor) # {}
              /\ \A l \in NextLanes(cursor) :
                     /\ lanes[l].occupying_robot \notin {None, robots[cursor].id}
                     /\ MovingAlong(lanes[l].occupying_robot, l)
       /\ IsResolveStep =>
              \A l \in ChangedLanes : MovingAlong(lanes[l].occupying_robot, l)]_vars

\* C36's case: a tick has just ended with resolve_deadlocks clearing the
\* lane the second robot waits for, under the first robot, which is
\* moving along it.
C36_Witness ==
    /\ pc = "events"
    /\ event_log # <<>>
    /\ event_log[1][1] = "traffic_manager"
    /\ Len(robots) = 2
    /\ robots[2].state = WAITING
    /\ robots[1].state = MOVING
    /\ LaneOf(robots[1]) = <<robots[2].current_vertex,
                             robots[2].path[robots[2].current_path_index + 2]>>
    /\ \A l \in NextLanes(2) : lanes[l].occupying_robot = None

-----------------------------------------------------------------------------
(* The fleet under the main loop, which runs a tick in every frame.        *)

SpecFair == Init /\ [][Next]_vars /\ TickFairness

\* Robot k has reached the end of its path: it is completed and stands on
\* its target vertex.
CompletedAtTarget(k) ==
    /\ k \in DOMAIN robots
    /\ robots[k].state = COMPLETED
    /\ robots[k].current_vertex = robots[k].target_vertex

\* Robot k has a pending path.
Pending(k) == k \in DOMAIN robots /\ HasNextVertex(k)

NoLaneOccupied == \A l \in DOMAIN lanes : lanes[l].occupying_robot = None

\* Every robot is through with its path, the robots that were given a
\* path of more than one vertex are completed on their target vertex, and
\* no lane is recorded as occupied.
Quiescent ==
    /\ \A k \in DOMAIN robots :
           /\ ~Pending(k)
           /\ Len(robots[k].path) > 1 => CompletedAtTarget(k)
    /\ NoLaneOccupied

\* C37: with no lane blocked, once no further task is assigned and no
\* further robot is spawned (every run assigns at most MaxTasks tasks and
\* spawns at most MaxRobots robots, so every run has such a point),
\* repeated ticks take every robot that has a pending path to Completed
\* on its target vertex, and from then on no lane is recorded as occupied.
C37_AllComplete == <>[]Quiescent

\* C37's case: every task has been assigned, the first robot has completed
\* its path, and the update of the second robot has just taken it to the
\* end of its own; no lane is occupied.
C37_Witness ==
    /\ assigned = MaxTasks
    /\ pc = "update"
    /\ cursor = 3
    /\ Len(robots) = 2
    /\ CompletedAtTarget(1)
    /\ CompletedAtTarget(2)
    /\ Len(robots[1].path) > 1
    /\ Len(robots[2].path) > 1
    /\ event_log # <<>>
    /\ event_log[Len(event_log)] = <<"robot", robots[2].id, COMPLETED, <<"reached_destination">> >>
    /\ NoLaneOccupied

\* C38: whenever spawn_robot(v) succeeds, no robot registered before it
\* that is not moving has v as its current_vertex.
C38_SpawnOnFreeGround ==
    [][Len(robots') = Len(robots) + 1 =>
          \A k \in DOMAIN robots :
              robots[k].state # MOVING =>
                  robots[k].current_vertex # robots'[Len(robots')].current_vertex]_vars

\* A robot that is not moving stands on a vertex the store records as
\* free: spawn_robot on that vertex will succeed.
C38_StandsUnrecorded ==
    \E k \in DOMAIN robots :
        /\ robots[k].state # MOVING
        /\ vertices[robots[k].current_vertex].occupying_robot = None

====
